---- MODULE Spec2Model ----
(***************************************************************************)
(* Model of dmage/ci-results: the ingestion pipeline of the indexer        *)
(* (discover -> fetch -> persist over two bounded channels, with the       *)
(* first-error register of `workers`) and the sqlite-backed store of the   *)
(* database package (five tables, their unique indexes, the LRU lookup     *)
(* caches and the connection's last_insert_rowid).                         *)
(*                                                                         *)
(* Store operations are operators from a store state to a store state and  *)
(* a return value; the pipeline's actions apply them.  The prepared        *)
(* statements of a Tx are taken to run inside the transaction.             *)
(*                                                                         *)
(* The aggregation engine (findJobIDsByFilter, QueryBuilder, BuildStats)   *)
(* is modelled by the statement it builds and by sqlite's evaluation of    *)
(* that statement over the tables; sqlite is taken with its default of     *)
(* reading a double-quoted token as a column name when one is in scope.    *)
(***************************************************************************)
EXTENDS Integers, Sequences, FiniteSets, TLC

(***************************************************************************)
(* Bounds of the model.                                                    *)
(***************************************************************************)
\* fetch workers spawned (the program spawns 5)
NumFetchWorkers == 2
\* capacity of jobsCh (the program uses 100)
JobsChCap == 1
\* capacity of buildsCh (the program uses 1000)
BuildsChCap == 1
\* capacity of the jobs, builds and tests caches (the program uses 20, 100, 5000)
JobsCacheSize == 1
BuildsCacheSize == 1
TestsCacheSize == 1
\* failures of the Result Source and of the store injected into one execution
MaxSourceFaults == 1
MaxStoreFaults == 1
\* store calls issued by the single-writer harness
MaxCalls == 3
\* build records persisted before the aggregation engine is queried
MaxBuilds == 2

(***************************************************************************)
(* testgrid.TestStatus                                                     *)
(***************************************************************************)
TestStatusNoResult == 0
TestStatusPass == 1
TestStatusPassWithSkips == 3
TestStatusRunning == 4
TestStatusFail == 12
TestStatusFlaky == 13

TestStatuses ==
  {TestStatusNoResult, TestStatusPass, TestStatusPassWithSkips,
   TestStatusRunning, TestStatusFail, TestStatusFlaky}

(***************************************************************************)
(* Errors.  Nil is the nil error; ErrNotFound is database.errNotFound.     *)
(***************************************************************************)
Nil == "nil"
ErrNotFound == "notfound"
ErrIO == "io"
\* sql.ErrNoRows, as a point lookup inside a store call sees it
ErrNoRows == "sql: no rows in result set"

IsNotFound(err) == err = ErrNotFound

(***************************************************************************)
(* Small helpers on sequences.                                             *)
(***************************************************************************)
Range(s) == {s[i] : i \in DOMAIN s}

Prefix(s, n) == [i \in 1..n |-> s[i]]

Without(s, i) == [j \in 1..(Len(s) - 1) |-> IF j < i THEN s[j] ELSE s[j + 1]]

(***************************************************************************)
(* The store: tables are sequences of rows, a row's id is its rowid, which *)
(* sqlite assigns as max(rowid)+1 (no row is ever deleted, so its index).  *)
(* `last` is the connection's last_insert_rowid; the caches hold           *)
(* [key, id] entries, most recently used first.                            *)
(***************************************************************************)
EmptyTables ==
  [jobs |-> <<>>, tags |-> <<>>, builds |-> <<>>, tests |-> <<>>, results |-> <<>>]

Tables(st) ==
  [jobs |-> st.jobs, tags |-> st.tags, builds |-> st.builds,
   tests |-> st.tests, results |-> st.results]

\* the store state of a freshly opened database over the committed tables
OpenDB(t) ==
  [jobs |-> t.jobs, tags |-> t.tags, builds |-> t.builds, tests |-> t.tests,
   results |-> t.results, last |-> 0,
   jobsCache |-> <<>>, buildsCache |-> <<>>, testsCache |-> <<>>]

buildKey(jobID, number) == [JobID |-> jobID, Number |-> number]

\* lru.Cache.Get: a hit moves the entry to the front
LruHas(c, k) == \E i \in DOMAIN c : c[i].key = k

LruIndex(c, k) == CHOOSE i \in DOMAIN c : c[i].key = k

\* a cache that answers with another id than the one it was given
LruValueStale(c, k) == c[LruIndex(c, k)].id + 1

LruValue(c, k) == c[LruIndex(c, k)].id

LruGetDrop(c, k) ==
  IF LruHas(c, k) THEN Without(c, LruIndex(c, k)) ELSE c

LruGet(c, k) ==
  IF LruHas(c, k) THEN <<c[LruIndex(c, k)]>> \o Without(c, LruIndex(c, k)) ELSE c

\* lru.Cache.Add: an existing key is updated and moved to the front, a new
\* one is pushed to the front and the oldest entry evicted beyond `size`
LruAdd(c, k, v, size) ==
  LET e == [key |-> k, id |-> v]
      grown == IF LruHas(c, k) THEN <<e>> \o Without(c, LruIndex(c, k))
               ELSE <<e>> \o c
  IN IF Len(grown) > size THEN Prefix(grown, size) ELSE grown

\* the prepared select statements: the ids of the rows with the given key
selectJob(st, name) == {i \in DOMAIN st.jobs : st.jobs[i].name = name}

selectBuild(st, jobID, number) ==
  {i \in DOMAIN st.builds : st.builds[i].job_id = jobID /\ st.builds[i].number = number}

selectTest(st, name) == {i \in DOMAIN st.tests : st.tests[i].name = name}

selectTestResult(st, buildID, testID) ==
  {i \in DOMAIN st.results :
     st.results[i].build_id = buildID /\ st.results[i].test_id = testID}

\* the id a select scans: the first matching row
FirstId(ids) == CHOOSE i \in ids : \A j \in ids : i <= j

\* "insert or ignore" under the table's unique index: when the index holds
\* the row's key (taken) the row is dropped silently and last_insert_rowid
\* keeps its value
InsertOrIgnorePlain(st, table, row, taken) ==
  [st EXCEPT ![table] = Append(st[table], row), !.last = Len(st[table]) + 1]

InsertOrIgnore(st, table, row, taken) ==
  IF taken
  THEN st
  ELSE [st EXCEPT ![table] = Append(st[table], row), !.last = Len(st[table]) + 1]

Ret(st, id, err) == [st |-> st, id |-> id, err |-> err]

\* dbImpl.FindJob; failAt = 1: the select fails
FindJobCacheOnly(st, name, failAt) ==
  IF LruHas(st.jobsCache, name)
  THEN Ret([st EXCEPT !.jobsCache = LruGet(@, name)], LruValue(st.jobsCache, name), Nil)
  ELSE IF failAt = 1 THEN Ret(st, 0, ErrIO)
  ELSE Ret(st, 0, ErrNotFound)

FindJob(st, name, failAt) ==
  LET ids == selectJob(st, name)
  IN IF LruHas(st.jobsCache, name)
     THEN Ret([st EXCEPT !.jobsCache = LruGet(@, name)], LruValue(st.jobsCache, name), Nil)
     ELSE IF failAt = 1 THEN Ret(st, 0, ErrIO)
     ELSE IF ids = {} THEN Ret(st, 0, ErrNotFound)
     ELSE Ret([st EXCEPT !.jobsCache = LruAdd(@, name, FirstId(ids), JobsCacheSize)],
              FirstId(ids), Nil)

\* dbImpl.FindTest (no cache); failAt = 1: the select fails
FindTestCaching(st, testName, failAt) ==
  LET ids == selectTest(st, testName)
  IN IF failAt = 1 THEN Ret(st, 0, ErrIO)
     ELSE IF ids = {} THEN Ret(st, 0, ErrNotFound)
     ELSE Ret([st EXCEPT !.testsCache = LruAdd(@, testName, FirstId(ids), TestsCacheSize)],
              FirstId(ids), Nil)

FindTestZero(st, testName, failAt) ==
  LET ids == selectTest(st, testName)
  IN IF failAt = 1 THEN Ret(st, 0, ErrIO)
     ELSE IF ids = {} THEN Ret(st, 0, Nil)
     ELSE Ret(st, FirstId(ids), Nil)

FindTest(st, testName, failAt) ==
  LET ids == selectTest(st, testName)
  IN IF failAt = 1 THEN Ret(st, 0, ErrIO)
     ELSE IF ids = {} THEN Ret(st, 0, ErrNotFound)
     ELSE Ret(st, FirstId(ids), Nil)

\* the per-tag loop of InsertJob: a plain insert under the unique index
\* (job_id, tag); the k-th insert fails when failAt = k + 1 or the pair exists
RECURSIVE InsertSippyTags(_, _, _, _, _)
InsertSippyTags(st, id, sippy, k, failAt) ==
  IF k > Len(sippy) THEN Ret(st, id, Nil)
  ELSE IF failAt = k + 1 THEN Ret(st, id, ErrIO)
  ELSE IF \E i \in DOMAIN st.tags : st.tags[i] = [job_id |-> id, tag |-> sippy[k]]
       THEN Ret(st, id, ErrIO)
  ELSE CHOOSE r \in {InsertSippyTags(next, id, sippy, k + 1, failAt) :
                        next \in {[st EXCEPT !.tags = Append(@, [job_id |-> id, tag |-> sippy[k]]),
                                             !.last = Len(st.tags) + 1]}} : TRUE

\* dbImpl.InsertJob; failAt = 1: the insert into jobs fails
InsertJobNoRow(st, name, dashboard, tags, failAt) ==
  Ret([st EXCEPT !.jobsCache = LruAdd(@, name, Len(st.jobs) + 1, JobsCacheSize)],
      Len(st.jobs) + 1, Nil)

InsertJob(st, name, dashboard, tags, failAt) ==
  LET row == [name |-> name, dashboard |-> dashboard, platform |-> tags.Platform,
              mod |-> tags.Mod, testtype |-> tags.TestType]
      st1 == InsertOrIgnore(st, "jobs", row, selectJob(st, name) # {})
      id == st1.last
      st2 == [st1 EXCEPT !.jobsCache = LruAdd(@, name, id, JobsCacheSize)]
  IN IF failAt = 1 THEN Ret(st, 0, ErrIO)
     ELSE InsertSippyTags(st2, id, tags.Sippy, 1, failAt)

\* dbImpl.UpsertBuild; failAt = 1: the select fails, 2: the insert fails
UpsertBuildNoSelect(st, jobID, number, timestamp, status, failAt) ==
  LET key == buildKey(jobID, number)
      row == [job_id |-> jobID, number |-> number, timestamp |-> timestamp,
              status |-> status]
      st1 == InsertOrIgnore(st, "builds", row, selectBuild(st, jobID, number) # {})
  IN IF LruHas(st.buildsCache, key)
     THEN Ret([st EXCEPT !.buildsCache = LruGet(@, key)], LruValue(st.buildsCache, key), Nil)
     ELSE IF failAt # 0 THEN Ret(st, 0, ErrIO)
     ELSE Ret([st1 EXCEPT !.buildsCache = LruAdd(@, key, st1.last, BuildsCacheSize)],
              st1.last, Nil)

UpsertBuildOverwrite(st, jobID, number, timestamp, status, failAt) ==
  LET key == buildKey(jobID, number)
      row == [job_id |-> jobID, number |-> number, timestamp |-> timestamp,
              status |-> status]
      ids == selectBuild(st, jobID, number)
      st1 == InsertOrIgnore(st, "builds", row, selectBuild(st, jobID, number) # {})
  IN IF LruHas(st.buildsCache, key)
     THEN Ret([st EXCEPT !.buildsCache = LruGet(@, key)], LruValue(st.buildsCache, key), Nil)
     ELSE IF failAt = 1 THEN Ret(st, 0, ErrIO)
     ELSE IF ids # {}
          THEN Ret([st EXCEPT !.builds[FirstId(ids)] = row,
                              !.buildsCache = LruAdd(@, key, FirstId(ids), BuildsCacheSize)],
                   FirstId(ids), Nil)
     ELSE IF failAt = 2 THEN Ret(st, 0, ErrIO)
     ELSE Ret([st1 EXCEPT !.buildsCache = LruAdd(@, key, st1.last, BuildsCacheSize)],
              st1.last, Nil)

\* the first half of UpsertBuild: the cache and the point lookup; ErrNoRows
\* when neither has the key and the call goes on to the insert
UpsertBuildLookup(st, jobID, number, failAt) ==
  LET key == buildKey(jobID, number)
      ids == selectBuild(st, jobID, number)
  IN IF LruHas(st.buildsCache, key)
     THEN Ret([st EXCEPT !.buildsCache = LruGet(@, key)], LruValue(st.buildsCache, key), Nil)
     ELSE IF failAt = 1 THEN Ret(st, 0, ErrIO)
     ELSE IF ids # {}
          THEN Ret([st EXCEPT !.buildsCache = LruAdd(@, key, FirstId(ids), BuildsCacheSize)],
                   FirstId(ids), Nil)
     ELSE Ret(st, 0, ErrNoRows)

\* the second half: insert-or-ignore, LastInsertId, buildsCache.Add
UpsertBuildInsert(st, jobID, number, timestamp, status, failAt) ==
  LET key == buildKey(jobID, number)
      row == [job_id |-> jobID, number |-> number, timestamp |-> timestamp,
              status |-> status]
      st1 == InsertOrIgnore(st, "builds", row, selectBuild(st, jobID, number) # {})
  IN IF failAt = 2 THEN Ret(st, 0, ErrIO)
     ELSE Ret([st1 EXCEPT !.buildsCache = LruAdd(@, key, st1.last, BuildsCacheSize)],
              st1.last, Nil)

UpsertBuild(st, jobID, number, timestamp, status, failAt) ==
  LET found == UpsertBuildLookup(st, jobID, number, failAt)
  IN IF found.err = ErrNoRows
     THEN UpsertBuildInsert(found.st, jobID, number, timestamp, status, failAt)
     ELSE found

\* dbImpl.UpsertTest; failAt = 1: the select fails, 2: the insert fails
UpsertTestNoSelect(st, name, failAt) ==
  LET st1 == InsertOrIgnore(st, "tests", [name |-> name], selectTest(st, name) # {})
  IN IF LruHas(st.testsCache, name)
     THEN Ret([st EXCEPT !.testsCache = LruGet(@, name)], LruValue(st.testsCache, name), Nil)
     ELSE IF failAt # 0 THEN Ret(st, 0, ErrIO)
     ELSE Ret([st1 EXCEPT !.testsCache = LruAdd(@, name, st1.last, TestsCacheSize)],
              st1.last, Nil)

UpsertTest(st, name, failAt) ==
  LET ids == selectTest(st, name)
      st1 == InsertOrIgnore(st, "tests", [name |-> name], selectTest(st, name) # {})
  IN IF LruHas(st.testsCache, name)
     THEN Ret([st EXCEPT !.testsCache = LruGet(@, name)], LruValue(st.testsCache, name), Nil)
     ELSE IF failAt = 1 THEN Ret(st, 0, ErrIO)
     ELSE IF ids # {}
          THEN Ret([st EXCEPT !.testsCache = LruAdd(@, name, FirstId(ids), TestsCacheSize)],
                   FirstId(ids), Nil)
     ELSE IF failAt = 2 THEN Ret(st, 0, ErrIO)
     ELSE Ret([st1 EXCEPT !.testsCache = LruAdd(@, name, st1.last, TestsCacheSize)],
              st1.last, Nil)

\* dbImpl.UpsertTestResult; failAt = 1: the select fails (the code then goes on
\* to the insert), 2: the insert fails
UpsertTestResultReplace(st, buildID, testID, status, failAt) ==
  LET row == [build_id |-> buildID, test_id |-> testID, status |-> status]
      ids == selectTestResult(st, buildID, testID)
  IN IF failAt = 2 THEN Ret(st, 0, ErrIO)
     ELSE IF ids # {}
          THEN Ret([st EXCEPT !.results[FirstId(ids)] = row, !.last = FirstId(ids)], 0, Nil)
     ELSE Ret([st EXCEPT !.results = Append(@, row), !.last = Len(st.results) + 1], 0, Nil)

UpsertTestResult(st, buildID, testID, status, failAt) ==
  LET row == [build_id |-> buildID, test_id |-> testID, status |-> status]
      ids == selectTestResult(st, buildID, testID)
  IN IF failAt # 1 /\ ids # {} THEN Ret(st, 0, Nil)
     ELSE IF failAt = 2 THEN Ret(st, 0, ErrIO)
     ELSE Ret(InsertOrIgnore(st, "results", row, selectTestResult(st, buildID, testID) # {}),
              0, Nil)

(***************************************************************************)
(* The classifier.  A job name is a string; whether a regular expression   *)
(* matches it is tabulated per name (all names are lower case, so the      *)
(* case-insensitive sippy patterns and the taggers' patterns agree).       *)
(***************************************************************************)
JobA == "periodic-ci-openshift-release-master-nightly-4.9-e2e-aws-proxy"
JobB == "promote-release-openshift-machine-os-content-e2e-aws-4.8"

JobNames == {JobA, JobB}

\* the last pattern is joinPatterns(platforms)+joinPatterns(mods)+"?(?:-4.[0-9]+)?$"
MatchTable ==
  (JobA :> {"-aws", "-proxy", "platform-mod-version$"}) @@
  (JobB :> {"^promote-", "-aws", "platform-mod-version$"}) @@
  ("a" :> {}) @@ ("a/b" :> {})

MatchString(pattern, jobName) == pattern \in MatchTable[jobName]

Tagger(tag, pattern) == [Tag |-> tag, Pattern |-> pattern]

platforms ==
  << Tagger("aws-upi", "-aws-upi"), Tagger("azure", "-azure"), Tagger("gcp", "-gcp"),
     Tagger("metal-assisted", "-metal-assisted"), Tagger("metal-ipi", "-metal-ipi"),
     Tagger("openstack", "-openstack"), Tagger("ovirt", "-ovirt"),
     Tagger("libvirt-ppc64le", "-libvirt-ppc64le"),
     Tagger("libvirt-s390x", "-libvirt-s390x"), Tagger("vsphere-upi", "-vsphere-upi"),
     Tagger("aws", "-aws"), Tagger("metal", "-metal"), Tagger("vsphere", "-vsphere") >>

mods ==
  << Tagger("calico", "-calico"), Tagger("canary", "-canary"), Tagger("cilium", "-cilium"),
     Tagger("compact", "-compact"), Tagger("disruptive", "-disruptive"),
     Tagger("fips", "-fips"), Tagger("mirrors", "-mirrors"), Tagger("ovn", "-ovn"),
     Tagger("proxy", "-proxy"), Tagger("rt", "-rt"),
     Tagger("sdn-multitenant", "-sdn-multitenant"), Tagger("shared-vpc", "-shared-vpc"),
     Tagger("single-node", "-single-node") >>

testTypes ==
  << Tagger("promote", "^promote-"), Tagger("conformance-serial", "-serial"),
     Tagger("other", "-arcconformance"), Tagger("other", "-cert-rotation"),
     Tagger("other", "-cluster-logging-operator"), Tagger("other", "-console"),
     Tagger("other", "-csi"), Tagger("other", "-elasticsearch-operator"),
     Tagger("other", "-image-ecosystem"), Tagger("other", "-jenkins-e2e"),
     Tagger("upgrade-conformance-from-stable", "-upgrade-from-stable"),
     Tagger("upgrade-conformance", "-upgrade"),
     Tagger("conformance-parallel", "platform-mod-version$") >>

\* getTag: the tag of the first tagger whose pattern matches, else the fallback
getTag(jobName, taggers, fallback) ==
  LET hits == {i \in DOMAIN taggers : MatchString(taggers[i].Pattern, jobName)}
  IN IF hits = {} THEN fallback ELSE taggers[FirstId(hits)].Tag

If(cond, tag) == IF cond THEN <<tag>> ELSE <<>>

\* sippy.IdentifyVariants
IdentifyVariants(jobName) ==
  LET m(p) == MatchString(p, jobName)
      variants ==
        If(m("-aws"), "aws") \o If(m("-azure"), "azure") \o If(m("-gcp"), "gcp") \o
        If(m("-openstack"), "openstack") \o If(m("-osd"), "osd") \o
        (IF m("-metal-assisted") THEN <<"metal-assisted">>
         ELSE IF m("-metal-ipi") THEN <<"metal-ipi">>
         ELSE If(m("-metal"), "metal-upi")) \o
        If(m("-ovirt"), "ovirt") \o
        (IF m("-vsphere-upi") THEN <<"vsphere-upi">> ELSE If(m("-vsphere"), "vsphere-ipi")) \o
        If(m("-upgrade"), "upgrade") \o If(m("-serial"), "serial") \o
        If(m("-ovn"), "ovn") \o If(m("-fips"), "fips") \o
        If(m("-ppc64le"), "ppc64le") \o If(m("-s390x"), "s390x") \o
        If(m("-rt"), "realtime") \o If(m("-proxy"), "proxy")
  IN IF m("^promote-") THEN <<"promote">>
     ELSE IF variants = <<>> THEN <<"unknown-variant">>
     ELSE variants

\* the tagger's job map after the AddConfig calls of Run (downloaded configuration)
TaggerJobs == (JobA :> <<"x-platform-aws", "x-test-openshift-e2e-suite-parallel">>)

\* ciinfo.Tagger.GetTags
GetTags(jobName) ==
  IF jobName \in DOMAIN TaggerJobs /\ Len(TaggerJobs[jobName]) # 0
  THEN TaggerJobs[jobName]
  ELSE <<"x-no-steps">>

Dashboard48 == "redhat-openshift-ocp-release-4.8-blocking"
Dashboard49 == "redhat-openshift-ocp-release-4.9-blocking"

\* the dashboards Run enumerates, in order
Dashboards == <<Dashboard48, Dashboard49>>

\* strings.Contains(dashboard, version)
DashboardContains(dashboard, version) ==
  <<dashboard, version>> \in {<<Dashboard48, "4.8">>, <<Dashboard49, "4.9">>}

neverStable == {JobA}

\* jobTags(tagger, dashboard, jobName)
jobTags(dashboard, jobName) ==
  [Platform |-> getTag(jobName, platforms, "unknown"),
   Mod |-> getTag(jobName, mods, "none"),
   TestType |-> getTag(jobName, testTypes, "other"),
   Sippy |-> IdentifyVariants(jobName) \o GetTags(jobName) \o
             If(DashboardContains(dashboard, "4.8"), "4.8") \o
             If(DashboardContains(dashboard, "4.9"), "4.9") \o
             If(jobName \in neverStable, "never-stable")]

(***************************************************************************)
(* The Result Source: what testgrid.GetJobResults may return (packed, with *)
(* run-length encoded statuses) and how the fetch worker flattens it.      *)
(***************************************************************************)
TestNames == {"Overall", "t1"}

RECURSIVE Repeat(_, _)
Repeat(v, n) == IF n <= 0 THEN <<>> ELSE <<v>> \o Repeat(v, n - 1)

\* unpackTestStatuses
RECURSIVE unpackTestStatuses(_)
unpackTestStatuses(tr) ==
  IF tr = <<>> THEN <<>>
  ELSE Repeat(Head(tr).Value, Head(tr).Count) \o unpackTestStatuses(Tail(tr))

\* unpackJobResults: Tests becomes a map from name to statuses; a later entry
\* of the same name replaces an earlier one
unpackJobResults(packedResults) ==
  LET names == {packedResults.Tests[i].Name : i \in DOMAIN packedResults.Tests}
      lastOf(n) == CHOOSE i \in DOMAIN packedResults.Tests :
                     /\ packedResults.Tests[i].Name = n
                     /\ \A j \in DOMAIN packedResults.Tests :
                          packedResults.Tests[j].Name = n => j <= i
  IN [Changelists |-> packedResults.Changelists,
      Timestamps |-> packedResults.Timestamps,
      Tests |-> [n \in names |-> unpackTestStatuses(packedResults.Tests[lastOf(n)].Statuses)]]

\* the build record the fetch worker builds for changelist index i
buildAtKeepAll(job, results, i) ==
  [JobDashboard |-> job.Dashboard, JobName |-> job.Name,
   Number |-> results.Changelists[i], Timestamp |-> results.Timestamps[i],
   Tests |-> [n \in DOMAIN results.Tests |-> results.Tests[n][i]]]

buildAt(job, results, i) ==
  LET kept == {n \in DOMAIN results.Tests : results.Tests[n][i] # TestStatusNoResult}
  IN [JobDashboard |-> job.Dashboard, JobName |-> job.Name,
      Number |-> results.Changelists[i], Timestamp |-> results.Timestamps[i],
      Tests |-> [n \in kept |-> results.Tests[n][i]]]

\* the build records of one fetched job, in changelist order
flatten(job, results) ==
  [i \in DOMAIN results.Changelists |-> buildAt(job, results, i)]

\* results the Result Source may return for a job: no build, or one build
\* "b1" with the tests Overall and t1
Packed1(number, timestamp, overall, other) ==
  [Changelists |-> <<number>>, Timestamps |-> <<timestamp>>,
   Tests |-> << [Name |-> "Overall", Statuses |-> <<[Count |-> 1, Value |-> overall]>>],
                [Name |-> "t1", Statuses |-> <<[Count |-> 1, Value |-> other]>>] >>]

JobResultsInputs ==
  { [Changelists |-> <<>>, Timestamps |-> <<>>, Tests |-> <<>>],
    Packed1("b1", 10, TestStatusPass, TestStatusNoResult),
    Packed1("b1", 20, TestStatusFail, TestStatusFlaky),
    Packed1("b1", 10, TestStatusPass, TestStatusRunning) }

\* the jobs a dashboard's summary may list
Listable(dashboard) == IF dashboard = Dashboard48 THEN {JobA, JobB} ELSE {JobA}

(***************************************************************************)
(* State of one execution of IndexerOptions.Run, of the store behind it,   *)
(* and of the single-writer harness that calls the store directly.         *)
(***************************************************************************)
VARIABLES
  disk,        \* the committed tables of results.db
  db,          \* the open connection: the transaction's tables, last, caches
  diskAtStart, \* disk when the current execution started
  srcFaults,   \* Result Source failures still to be injected
  faults,      \* store failures still to be injected
  jobsCh,      \* contents of jobsCh
  jobsClosed,  \* how many times jobsCh was closed
  buildsCh,    \* contents of buildsCh
  buildsClosed,\* how many times buildsCh was closed
  emitted,     \* the build records the fetch workers have sent so far
  pc,          \* position of each worker goroutine
  ret,         \* what each worker's fn returned
  dIdx,        \* discover: index of the current dashboard
  dPending,    \* discover: jobs of the current summary still to send
  fPending,    \* fetch: build records still to send, per worker
  pCur,        \* persist: the build record being persisted
  pJobID,      \* persist: jobID
  pBuildID,    \* persist: buildID
  pTests,      \* persist: tests of the record still to upsert
  pTestName,   \* persist: testName of the current iteration
  pTestID,     \* persist: testID
  pErr,        \* persist: the error fn returns with, before the deferred Commit
  werr,        \* workers.err
  saveLog,     \* the arguments of the saveErr calls, in lock order
  groupsDone,  \* the stages whose finalizer has run (workers.groups)
  result,      \* what workers.Done returned, Pending before
  lastOp,      \* the last step of the store's single writer and its outcome
  calls        \* store calls issued by the harness

vars ==
  <<disk, db, diskAtStart, srcFaults, faults, jobsCh, jobsClosed, buildsCh, buildsClosed,
    emitted, pc, ret, dIdx, dPending, fPending, pCur, pJobID, pBuildID, pTests, pTestName, pTestID, pErr, werr,
    saveLog, groupsDone, result, lastOp, calls>>

storeVars == <<disk, db>>
chanVars == <<jobsCh, jobsClosed, buildsCh, buildsClosed, emitted>>
discoverVars == <<dIdx, dPending>>
persistVars == <<pCur, pJobID, pBuildID, pTests, pTestName, pTestID, pErr>>
registerVars == <<werr, saveLog, groupsDone, result>>
harnessVars == <<lastOp, calls>>

Pending == "pending"
NoBuild == [JobDashboard |-> "", JobName |-> "", Number |-> "", Timestamp |-> 0,
            Tests |-> <<>>]
NoOp == [op |-> "none"]

Discoverer == 0
Fetchers == 1..NumFetchWorkers
Persister == NumFetchWorkers + 1
Workers == {Discoverer, Persister} \cup Fetchers
Groups == {"discover", "fetch", "persist"}

GroupOf(g) ==
  IF g = "discover" THEN {Discoverer}
  ELSE IF g = "fetch" THEN Fetchers
  ELSE {Persister}

\* the failure points a store call may be given: none, or one of 1..n while
\* the budget lasts
FailPoints(n) == IF faults > 0 THEN 0..n ELSE {0}

Spend(failed) == IF failed THEN faults - 1 ELSE faults

\* a failure is injected only where the call reaches the failing statement:
\* its outcome r differs from the outcome r0 of the same call without failure
Injected(failAt, r, r0) == IF failAt = 0 THEN TRUE ELSE r # r0

InitRun(t) ==
  /\ disk = t
  /\ db = OpenDB(t)
  /\ diskAtStart = t
  /\ jobsCh = <<>>
  /\ jobsClosed = 0
  /\ buildsCh = <<>>
  /\ buildsClosed = 0
  /\ emitted = {}
  /\ pc = [w \in Workers |->
             IF w = Discoverer THEN "list" ELSE IF w = Persister THEN "begin" ELSE "recv"]
  /\ ret = [w \in Workers |-> Nil]
  /\ dIdx = 1
  /\ dPending = {}
  /\ fPending = [w \in Fetchers |-> <<>>]
  /\ pCur = NoBuild
  /\ pJobID = 0
  /\ pBuildID = 0
  /\ pTests = {}
  /\ pTestName = ""
  /\ pTestID = 0
  /\ pErr = Nil
  /\ werr = Nil
  /\ saveLog = <<>>
  /\ groupsDone = {}
  /\ result = Pending
  /\ lastOp = NoOp
  /\ calls = 0

Init ==
  /\ srcFaults = MaxSourceFaults
  /\ faults = MaxStoreFaults
  /\ InitRun(EmptyTables)

\* The store calls of the persist worker read and write only db and the
\* worker's own locals, so they commute with every step of the other
\* goroutines; the model schedules them before any other goroutine's step.
InStoreCall == pc[Persister] \in {"findjob", "insertjob", "build", "test", "result"}

(***************************************************************************)
(* workers: the error register, the finalizers and Done.                   *)
(***************************************************************************)
\* workers.saveErr: the value of w.err after saveErr(err)
saveErrOverwrite(cur, err) == IF err = Nil THEN cur ELSE err

saveErr(cur, err) ==
  IF err = Nil THEN cur
  ELSE IF cur = Nil THEN err ELSE cur

\* the goroutine of spawn: w.saveErr(fn()), then wg.Done()
SaveErr(w) ==
  /\ ~InStoreCall
  /\ pc[w] = "ret"
  /\ werr' = saveErr(werr, ret[w])
  /\ saveLog' = Append(saveLog, ret[w])
  /\ pc' = [pc EXCEPT ![w] = "done"]
  /\ UNCHANGED <<storeVars, diskAtStart, srcFaults, faults, chanVars, ret, discoverVars, fPending,
                 persistVars, groupsDone, result, harnessVars>>

\* a finalizer that does not wait for every goroutine of its group
FinalizeEarly(g) ==
  /\ ~InStoreCall
  /\ g \notin groupsDone
  /\ \E w \in GroupOf(g) : pc[w] = "done"
  /\ jobsClosed' = IF g = "discover" THEN jobsClosed + 1 ELSE jobsClosed
  /\ buildsClosed' = IF g = "fetch" THEN buildsClosed + 1 ELSE buildsClosed
  /\ werr' = saveErr(werr, Nil)
  /\ groupsDone' = groupsDone \cup {g}
  /\ UNCHANGED <<storeVars, diskAtStart, srcFaults, faults, jobsCh, buildsCh, emitted, pc, ret,
                 discoverVars, fPending, persistVars, saveLog, result, harnessVars>>

\* the finalizer goroutine of spawn: wg.Wait(), finalize(), saveErr(nil),
\* groups.Done(); finalize closes the stage's output channel
Finalize(g) ==
  /\ ~InStoreCall
  /\ g \notin groupsDone
  /\ \A w \in GroupOf(g) : pc[w] = "done"
  /\ jobsClosed' = IF g = "discover" THEN jobsClosed + 1 ELSE jobsClosed
  /\ buildsClosed' = IF g = "fetch" THEN buildsClosed + 1 ELSE buildsClosed
  /\ werr' = saveErr(werr, Nil)
  /\ groupsDone' = groupsDone \cup {g}
  /\ UNCHANGED <<storeVars, diskAtStart, srcFaults, faults, jobsCh, buildsCh, emitted, pc, ret,
                 discoverVars, fPending, persistVars, saveLog, result, harnessVars>>

\* workers.Done: groups.Wait(), then Err()
Done ==
  /\ ~InStoreCall
  /\ result = Pending
  /\ groupsDone = Groups
  /\ result' = werr
  /\ UNCHANGED <<storeVars, diskAtStart, srcFaults, faults, chanVars, pc, ret, discoverVars,
                 fPending, persistVars, werr, saveLog, groupsDone, harnessVars>>

(***************************************************************************)
(* Stage 1: discover.                                                      *)
(***************************************************************************)
\* where the worker stands once the jobs in `pending` of dashboard `idx` are
\* left to send: sending, listing the next dashboard, or returning nil
DiscoverPcNoSend(idx, pending) ==
  IF idx < Len(Dashboards) THEN "list" ELSE "ret"

DiscoverPc(idx, pending) ==
  IF pending # {} THEN "send" ELSE IF idx < Len(Dashboards) THEN "list" ELSE "ret"

DiscoverIdx(idx, pending) ==
  IF pending = {} /\ idx < Len(Dashboards) THEN idx + 1 ELSE idx

\* testgrid.GetDashboardSummary returns a summary
DiscoverList ==
  /\ ~InStoreCall
  /\ pc[Discoverer] = "list"
  /\ \E summary \in SUBSET Listable(Dashboards[dIdx]) :
       /\ dPending' = summary
       /\ dIdx' = DiscoverIdx(dIdx, summary)
       /\ pc' = [pc EXCEPT ![Discoverer] = DiscoverPc(dIdx, summary)]
  /\ UNCHANGED <<storeVars, diskAtStart, srcFaults, faults, chanVars, ret, fPending, persistVars,
                 registerVars, harnessVars>>

\* testgrid.GetDashboardSummary fails: the worker returns the error
DiscoverListFail ==
  /\ ~InStoreCall
  /\ pc[Discoverer] = "list"
  /\ srcFaults > 0
  /\ srcFaults' = srcFaults - 1
  /\ pc' = [pc EXCEPT ![Discoverer] = "ret"]
  /\ ret' = [ret EXCEPT ![Discoverer] = "list failed"]
  /\ UNCHANGED <<storeVars, diskAtStart, faults, chanVars, discoverVars, fPending, persistVars,
                 registerVars, harnessVars>>

\* jobsCh <- job{...}, for the next job of the map iteration (any order);
\* blocks while the channel is full
DiscoverSend ==
  /\ ~InStoreCall
  /\ pc[Discoverer] = "send"
  /\ Len(jobsCh) < JobsChCap
  /\ \E jobName \in dPending :
       /\ jobsCh' = Append(jobsCh, [Dashboard |-> Dashboards[dIdx], Name |-> jobName])
       /\ dPending' = dPending \ {jobName}
       /\ dIdx' = DiscoverIdx(dIdx, dPending \ {jobName})
       /\ pc' = [pc EXCEPT ![Discoverer] = DiscoverPc(dIdx, dPending \ {jobName})]
  /\ UNCHANGED <<storeVars, diskAtStart, srcFaults, faults, jobsClosed, buildsCh, buildsClosed,
                 emitted, ret, fPending, persistVars, registerVars, harnessVars>>

(***************************************************************************)
(* Stage 2: fetch.                                                         *)
(***************************************************************************)
\* job := <-jobsCh; testgrid.GetJobResults succeeds; the records are built
FetchRecvLookup(w) ==
  /\ ~InStoreCall
  /\ pc[w] = "recv"
  /\ jobsCh # <<>>
  /\ jobsCh' = Tail(jobsCh)
  /\ db' = FindJob(db, Head(jobsCh).Name, 0).st
  /\ \E packedResults \in JobResultsInputs :
       LET builds == flatten(Head(jobsCh), unpackJobResults(packedResults))
       IN /\ fPending' = [fPending EXCEPT ![w] = builds]
          /\ pc' = [pc EXCEPT ![w] = IF builds = <<>> THEN "recv" ELSE "send"]
  /\ UNCHANGED <<disk, diskAtStart, srcFaults, faults, jobsClosed, buildsCh, buildsClosed,
                 emitted, ret, discoverVars, persistVars, registerVars, harnessVars>>

FetchRecv(w) ==
  /\ ~InStoreCall
  /\ pc[w] = "recv"
  /\ jobsCh # <<>>
  /\ jobsCh' = Tail(jobsCh)
  /\ \E packedResults \in JobResultsInputs :
       LET builds == flatten(Head(jobsCh), unpackJobResults(packedResults))
       IN /\ fPending' = [fPending EXCEPT ![w] = builds]
          /\ pc' = [pc EXCEPT ![w] = IF builds = <<>> THEN "recv" ELSE "send"]
  /\ UNCHANGED <<storeVars, diskAtStart, srcFaults, faults, jobsClosed, buildsCh, buildsClosed,
                 emitted, ret, discoverVars, persistVars, registerVars, harnessVars>>

\* job := <-jobsCh; testgrid.GetJobResults fails: the worker returns the error
FetchRecvFail(w) ==
  /\ ~InStoreCall
  /\ pc[w] = "recv"
  /\ jobsCh # <<>>
  /\ srcFaults > 0
  /\ srcFaults' = srcFaults - 1
  /\ jobsCh' = Tail(jobsCh)
  /\ pc' = [pc EXCEPT ![w] = "ret"]
  /\ ret' = [ret EXCEPT ![w] = "fetch failed " \o ToString(w)]
  /\ UNCHANGED <<storeVars, diskAtStart, faults, jobsClosed, buildsCh, buildsClosed, emitted,
                 discoverVars, fPending, persistVars, registerVars, harnessVars>>

\* buildsCh <- build; blocks while the channel is full
FetchSend(w) ==
  /\ ~InStoreCall
  /\ pc[w] = "send"
  /\ Len(buildsCh) < BuildsChCap
  /\ buildsCh' = Append(buildsCh, Head(fPending[w]))
  /\ emitted' = emitted \cup {Head(fPending[w])}
  /\ fPending' = [fPending EXCEPT ![w] = Tail(@)]
  /\ pc' = [pc EXCEPT ![w] = IF Tail(fPending[w]) = <<>> THEN "recv" ELSE "send"]
  /\ UNCHANGED <<storeVars, diskAtStart, srcFaults, faults, jobsCh, jobsClosed, buildsClosed, ret,
                 discoverVars, persistVars, registerVars, harnessVars>>

\* the range over jobsCh ends: the channel is closed and empty
FetchReturn(w) ==
  /\ ~InStoreCall
  /\ pc[w] = "recv"
  /\ jobsCh = <<>>
  /\ jobsClosed > 0
  /\ pc' = [pc EXCEPT ![w] = "ret"]
  /\ ret' = [ret EXCEPT ![w] = Nil]
  /\ UNCHANGED <<storeVars, diskAtStart, srcFaults, faults, chanVars, discoverVars, fPending,
                 persistVars, registerVars, harnessVars>>

(***************************************************************************)
(* Stage 3: persist.                                                       *)
(***************************************************************************)
\* the running check of the persist loop
hasRunningOverallOnly(build) ==
  "Overall" \in DOMAIN build.Tests /\ build.Tests["Overall"] = TestStatusRunning

\* a persist loop that skips no record
hasRunningNone(build) == FALSE

hasRunning(build) == \E n \in DOMAIN build.Tests : build.Tests[n] = TestStatusRunning

\* buildStatus: 1 (success) unless the record's Overall status is fail
buildStatusPassOnly(build) ==
  IF "Overall" \in DOMAIN build.Tests /\ build.Tests["Overall"] = TestStatusPass
  THEN 1 ELSE 2

buildStatus(build) ==
  IF "Overall" \in DOMAIN build.Tests /\ build.Tests["Overall"] = TestStatusFail
  THEN 2 ELSE 1

\* tx, err := db.Begin(): the transaction starts from the committed tables
PersistBegin ==
  /\ pc[Persister] = "begin"
  /\ \E failAt \in FailPoints(1) :
       /\ faults' = Spend(failAt # 0)
       /\ pc' = [pc EXCEPT ![Persister] = IF failAt = 0 THEN "recv" ELSE "ret"]
       /\ ret' = [ret EXCEPT ![Persister] = IF failAt = 0 THEN Nil ELSE "begin failed"]
  /\ UNCHANGED <<storeVars, diskAtStart, srcFaults, chanVars, discoverVars, fPending,
                 persistVars, registerVars, harnessVars>>

\* build := <-buildsCh and the running check: a record with a running test is
\* skipped, any other one is taken up
PersistRecv ==
  /\ pc[Persister] = "recv"
  /\ buildsCh # <<>>
  /\ buildsCh' = Tail(buildsCh)
  /\ pCur' = IF hasRunning(Head(buildsCh)) THEN pCur ELSE Head(buildsCh)
  /\ pc' = [pc EXCEPT ![Persister] = IF hasRunning(Head(buildsCh)) THEN "recv" ELSE "findjob"]
  /\ lastOp' = [op |-> IF hasRunning(Head(buildsCh)) THEN "skip" ELSE "take"]
  /\ UNCHANGED <<storeVars, diskAtStart, srcFaults, faults, jobsCh, jobsClosed, buildsClosed,
                 emitted, ret, discoverVars, fPending, pJobID, pBuildID, pTests, pTestName,
                 pTestID, pErr, registerVars, calls>>

\* the range over buildsCh ends: the channel is closed and empty; fn returns nil
PersistReturnEarly ==
  /\ pc[Persister] = "recv"
  /\ buildsCh = <<>>
  /\ pErr' = Nil
  /\ pc' = [pc EXCEPT ![Persister] = "commit"]
  /\ UNCHANGED <<storeVars, diskAtStart, srcFaults, faults, chanVars, ret, discoverVars, fPending,
                 pCur, pJobID, pBuildID, pTests, pTestName, pTestID, registerVars,
                 harnessVars>>

PersistReturn ==
  /\ pc[Persister] = "recv"
  /\ buildsCh = <<>>
  /\ buildsClosed > 0
  /\ pErr' = Nil
  /\ pc' = [pc EXCEPT ![Persister] = "commit"]
  /\ UNCHANGED <<storeVars, diskAtStart, srcFaults, faults, chanVars, ret, discoverVars, fPending,
                 pCur, pJobID, pBuildID, pTests, pTestName, pTestID, registerVars,
                 harnessVars>>

\* where the persist worker goes after a store call returned err
AfterCall(err, next) == IF err = Nil THEN next ELSE "commit"

\* jobID, err := tx.FindJob(build.JobName)
PersistFindJob ==
  /\ pc[Persister] = "findjob"
  /\ \E failAt \in FailPoints(1) :
       LET r == FindJob(db, pCur.JobName, failAt)
       IN /\ Injected(failAt, r, FindJob(db, pCur.JobName, 0))
          /\ faults' = Spend(failAt # 0)
          /\ db' = r.st
          /\ pJobID' = r.id
          /\ pErr' = IF IsNotFound(r.err) THEN Nil ELSE r.err
          /\ pc' = [pc EXCEPT ![Persister] =
                      IF IsNotFound(r.err) THEN "insertjob" ELSE AfterCall(r.err, "build")]
  /\ UNCHANGED <<disk, diskAtStart, srcFaults, chanVars, ret, discoverVars, fPending, pCur, pBuildID,
                 pTests, pTestName, pTestID, registerVars, harnessVars>>

\* jobID, err = tx.InsertJob(build.JobName, build.JobDashboard, jobTags(...))
PersistInsertJob ==
  /\ pc[Persister] = "insertjob"
  /\ \E tags \in {jobTags(pCur.JobDashboard, pCur.JobName)} :
       \E failAt \in FailPoints(1 + Len(tags.Sippy)) :
          LET r == InsertJob(db, pCur.JobName, pCur.JobDashboard, tags, failAt)
          IN /\ Injected(failAt, r, InsertJob(db, pCur.JobName, pCur.JobDashboard, tags, 0))
             /\ faults' = Spend(failAt # 0)
             /\ db' = r.st
             /\ pJobID' = r.id
             /\ pErr' = r.err
             /\ pc' = [pc EXCEPT ![Persister] = AfterCall(r.err, "build")]
  /\ UNCHANGED <<disk, diskAtStart, srcFaults, chanVars, ret, discoverVars, fPending, pCur, pBuildID,
                 pTests, pTestName, pTestID, registerVars, harnessVars>>

\* buildID, err := tx.UpsertBuild(jobID, build.Number, build.Timestamp, buildStatus)
PersistUpsertBuild ==
  /\ pc[Persister] = "build"
  /\ \E failAt \in FailPoints(2) :
       LET r == UpsertBuild(db, pJobID, pCur.Number, pCur.Timestamp, buildStatus(pCur),
                            failAt)
       IN /\ Injected(failAt, r, UpsertBuild(db, pJobID, pCur.Number, pCur.Timestamp,
                                                buildStatus(pCur), 0))
          /\ faults' = Spend(failAt # 0)
          /\ db' = r.st
          /\ pBuildID' = r.id
          /\ pErr' = r.err
          /\ pTests' = DOMAIN pCur.Tests
          /\ pc' = [pc EXCEPT ![Persister] =
                      AfterCall(r.err, IF DOMAIN pCur.Tests = {} THEN "recv" ELSE "test")]
  /\ UNCHANGED <<disk, diskAtStart, srcFaults, chanVars, ret, discoverVars, fPending, pCur, pJobID,
                 pTestName, pTestID, registerVars, harnessVars>>

\* testID, err := tx.UpsertTest(testName), for the next test of the map
\* iteration (any order)
PersistUpsertTest ==
  /\ pc[Persister] = "test"
  /\ \E testName \in pTests, failAt \in FailPoints(2) :
       LET r == UpsertTest(db, testName, failAt)
       IN /\ Injected(failAt, r, UpsertTest(db, testName, 0))
          /\ faults' = Spend(failAt # 0)
          /\ db' = r.st
          /\ pTestName' = testName
          /\ pTestID' = r.id
          /\ pErr' = r.err
          /\ pc' = [pc EXCEPT ![Persister] = AfterCall(r.err, "result")]
  /\ UNCHANGED <<disk, diskAtStart, srcFaults, chanVars, ret, discoverVars, fPending, pCur, pJobID,
                 pBuildID, pTests, registerVars, harnessVars>>

\* err = tx.UpsertTestResult(buildID, testID, status)
PersistUpsertTestResult ==
  /\ pc[Persister] = "result"
  /\ \E failAt \in FailPoints(2) :
       LET r == UpsertTestResult(db, pBuildID, pTestID, pCur.Tests[pTestName], failAt)
       IN /\ Injected(failAt, r, UpsertTestResult(db, pBuildID, pTestID,
                                                     pCur.Tests[pTestName], 0))
          /\ faults' = Spend(failAt # 0)
          /\ db' = r.st
          /\ pErr' = r.err
          /\ pTests' = pTests \ {pTestName}
          /\ pc' = [pc EXCEPT ![Persister] =
                      AfterCall(r.err, IF pTests \ {pTestName} = {} THEN "recv" ELSE "test")]
  /\ UNCHANGED <<disk, diskAtStart, srcFaults, chanVars, ret, discoverVars, fPending, pCur, pJobID,
                 pBuildID, pTestName, pTestID, registerVars, harnessVars>>

\* the deferred function of the persist worker: tx.Commit() on every return
\* after Begin succeeded; its error is returned when fn had none
PersistCommit ==
  /\ pc[Persister] = "commit"
  /\ \E failAt \in FailPoints(1) :
       /\ faults' = Spend(failAt # 0)
       /\ disk' = IF failAt = 0 THEN Tables(db) ELSE disk
       /\ ret' = [ret EXCEPT ![Persister] =
                    IF pErr # Nil THEN pErr
                    ELSE IF failAt = 0 THEN Nil ELSE "commit failed"]
  /\ pc' = [pc EXCEPT ![Persister] = "ret"]
  /\ pCur' = NoBuild
  /\ pJobID' = 0
  /\ pBuildID' = 0
  /\ pTests' = {}
  /\ pTestName' = ""
  /\ pTestID' = 0
  /\ pErr' = Nil
  /\ UNCHANGED <<db, diskAtStart, srcFaults, chanVars, discoverVars, fPending,
                 registerVars, harnessVars>>

(***************************************************************************)
(* One execution of Run.                                                   *)
(***************************************************************************)
Next ==
  \/ DiscoverList
  \/ DiscoverListFail
  \/ DiscoverSend
  \/ \E w \in Fetchers : FetchRecv(w)
  \/ \E w \in Fetchers : FetchRecvFail(w)
  \/ \E w \in Fetchers : FetchSend(w)
  \/ \E w \in Fetchers : FetchReturn(w)
  \/ PersistBegin
  \/ PersistRecv
  \/ PersistReturn
  \/ PersistFindJob
  \/ PersistInsertJob
  \/ PersistUpsertBuild
  \/ PersistUpsertTest
  \/ PersistUpsertTestResult
  \/ PersistCommit
  \/ \E w \in Workers : SaveErr(w)
  \/ \E g \in Groups : Finalize(g)
  \/ Done

Spec == Init /\ [][Next]_vars

(***************************************************************************)
(* An execution of Run in which no call of the Result Source and no        *)
(* statement of the store fails.  Every goroutine that can take a step     *)
(* eventually takes one, and every call returns.                           *)
(***************************************************************************)
InitLive ==
  /\ srcFaults = 0
  /\ faults = 0
  /\ InitRun(EmptyTables)

NextLive ==
  \/ DiscoverList
  \/ DiscoverSend
  \/ \E w \in Fetchers : FetchRecv(w)
  \/ \E w \in Fetchers : FetchSend(w)
  \/ \E w \in Fetchers : FetchReturn(w)
  \/ PersistBegin
  \/ PersistRecv
  \/ PersistReturn
  \/ PersistFindJob
  \/ PersistInsertJob
  \/ PersistUpsertBuild
  \/ PersistUpsertTest
  \/ PersistUpsertTestResult
  \/ PersistCommit
  \/ \E w \in Workers : SaveErr(w)
  \/ \E g \in Groups : Finalize(g)
  \/ Done

SpecLive == InitLive /\ [][NextLive]_vars /\ WF_vars(NextLive)

(***************************************************************************)
(* The store under a single writer that issues any sequence of calls, as   *)
(* the persist worker is for the length of a run; Reopen commits and       *)
(* starts the next process over the committed tables.                      *)
(***************************************************************************)
JobIDs == {1, 2}
BuildNumbers == {"b1", "b2"}
BuildIDs == {1, 2}
TestIDs == {1, 2}
\* (timestamp, status) of the UpsertBuild calls
BuildArgs == {<<10, 1>>, <<20, 2>>}
\* status of the UpsertTestResult calls
ResultArgs == {TestStatusPass, TestStatusFail}

InitStore ==
  /\ srcFaults = 0
  /\ faults = MaxStoreFaults
  /\ InitRun(EmptyTables)

Idle == <<diskAtStart, srcFaults, chanVars, pc, ret, discoverVars, fPending, persistVars,
          registerVars>>

\* what a call leaves behind: the call, the tables before it, what it returned
Called(op, key, arg, failAt, r) ==
  [op |-> op, key |-> key, arg |-> arg, failAt |-> failAt, before |-> Tables(db),
   id |-> r.id, err |-> r.err]

CallFindJob ==
  /\ calls < MaxCalls
  /\ \E name \in JobNames, failAt \in FailPoints(1) :
       LET r == FindJob(db, name, failAt)
       IN /\ Injected(failAt, r, FindJob(db, name, 0))
          /\ faults' = Spend(failAt # 0)
          /\ db' = r.st
          /\ lastOp' = Called("FindJob", name, "", failAt, r)
  /\ calls' = calls + 1
  /\ UNCHANGED <<disk, Idle>>

\* InsertJob is called as the persist worker calls it: after FindJob returned
\* NotFound, with the tags of jobTags
CallInsertJob ==
  /\ calls < MaxCalls
  /\ \E name \in JobNames, i \in DOMAIN Dashboards :
       /\ IsNotFound(FindJob(db, name, 0).err)
       /\ LET tags == jobTags(Dashboards[i], name)
          IN \E failAt \in FailPoints(1 + Len(tags.Sippy)) :
               LET r == InsertJob(db, name, Dashboards[i], tags, failAt)
               IN /\ faults' = Spend(failAt # 0)
                  /\ db' = r.st
                  /\ lastOp' = Called("InsertJob", name, Dashboards[i], failAt, r)
  /\ calls' = calls + 1
  /\ UNCHANGED <<disk, Idle>>

CallUpsertBuild ==
  /\ calls < MaxCalls
  /\ \E jobID \in JobIDs, number \in BuildNumbers, a \in BuildArgs, failAt \in FailPoints(2) :
       LET r == UpsertBuild(db, jobID, number, a[1], a[2], failAt)
       IN /\ Injected(failAt, r, UpsertBuild(db, jobID, number, a[1], a[2], 0))
          /\ faults' = Spend(failAt # 0)
          /\ db' = r.st
          /\ lastOp' = Called("UpsertBuild", buildKey(jobID, number), a, failAt, r)
  /\ calls' = calls + 1
  /\ UNCHANGED <<disk, Idle>>

CallUpsertTest ==
  /\ calls < MaxCalls
  /\ \E name \in TestNames, failAt \in FailPoints(2) :
       LET r == UpsertTest(db, name, failAt)
       IN /\ Injected(failAt, r, UpsertTest(db, name, 0))
          /\ faults' = Spend(failAt # 0)
          /\ db' = r.st
          /\ lastOp' = Called("UpsertTest", name, "", failAt, r)
  /\ calls' = calls + 1
  /\ UNCHANGED <<disk, Idle>>

CallUpsertTestResult ==
  /\ calls < MaxCalls
  /\ \E buildID \in BuildIDs, testID \in TestIDs, status \in ResultArgs,
        failAt \in FailPoints(2) :
       LET r == UpsertTestResult(db, buildID, testID, status, failAt)
       IN /\ Injected(failAt, r, UpsertTestResult(db, buildID, testID, status, 0))
          /\ faults' = Spend(failAt # 0)
          /\ db' = r.st
          /\ lastOp' = Called("UpsertTestResult", <<buildID, testID>>, status, failAt, r)
  /\ calls' = calls + 1
  /\ UNCHANGED <<disk, Idle>>

\* tx.Commit and db.Close, then database.OpenDefault by the next process:
\* the caches start empty over the committed tables
Reopen ==
  /\ calls < MaxCalls
  /\ lastOp.op # "Reopen"
  /\ disk' = Tables(db)
  /\ db' = OpenDB(Tables(db))
  /\ lastOp' = [op |-> "Reopen"]
  /\ calls' = calls + 1
  /\ UNCHANGED <<faults, Idle>>

NextStore ==
  \/ CallFindJob
  \/ CallInsertJob
  \/ CallUpsertBuild
  \/ CallUpsertTest
  \/ CallUpsertTestResult
  \/ Reopen

SpecStore == InitStore /\ [][NextStore]_vars

(***************************************************************************)
(* Properties.                                                             *)
(***************************************************************************)
AnyRunning(build) == TestStatusRunning \in Range(build.Tests)

FirstNonNil(log) ==
  LET hits == {i \in DOMAIN log : log[i] # Nil}
  IN IF hits = {} THEN Nil ELSE log[FirstId(hits)]

\* no two rows of a table agree on the columns of its unique index
UniqueKeys(t) ==
  /\ \A i, j \in DOMAIN t.jobs : t.jobs[i].name = t.jobs[j].name => i = j
  /\ \A i, j \in DOMAIN t.tags : t.tags[i] = t.tags[j] => i = j
  /\ \A i, j \in DOMAIN t.builds :
       (t.builds[i].job_id = t.builds[j].job_id /\ t.builds[i].number = t.builds[j].number)
         => i = j
  /\ \A i, j \in DOMAIN t.tests : t.tests[i].name = t.tests[j].name => i = j
  /\ \A i, j \in DOMAIN t.results :
       (t.results[i].build_id = t.results[j].build_id
          /\ t.results[i].test_id = t.results[j].test_id) => i = j

\* the rows of the tables before the last call that carry the call's key
BuildRowsBefore ==
  {i \in DOMAIN lastOp.before.builds :
     /\ lastOp.before.builds[i].job_id = lastOp.key.JobID
     /\ lastOp.before.builds[i].number = lastOp.key.Number}

TestRowsBefore == {i \in DOMAIN lastOp.before.tests : lastOp.before.tests[i].name = lastOp.key}

ResultRowsBefore ==
  {i \in DOMAIN lastOp.before.results :
     /\ lastOp.before.results[i].build_id = lastOp.key[1]
     /\ lastOp.before.results[i].test_id = lastOp.key[2]}

\* the tags attached to job id in tables t
TagsOf(t, id) == {t.tags[i].tag : i \in {k \in DOMAIN t.tags : t.tags[k].job_id = id}}

\* C1: a build record with a running test that the persist worker receives is
\* dropped on the spot: the step that takes it off buildsCh changes neither the
\* transaction's tables, the caches nor the committed tables and leaves the
\* worker at the receive, and no store call is ever made for such a record.
C1_RunningSkipped ==
  /\ [](InStoreCall => ~AnyRunning(pCur))
  /\ [][(/\ pc[Persister] = "recv"
         /\ buildsCh # <<>>
         /\ buildsCh' = Tail(buildsCh)
         /\ AnyRunning(Head(buildsCh)))
        => (db' = db /\ disk' = disk /\ pc'[Persister] = "recv")]_vars

C1_Witness ==
  /\ lastOp = [op |-> "skip"]
  /\ pc[Persister] = "recv"
  /\ Tables(db) = EmptyTables

\* C2 (as claimed): when the persist worker returns an error, nothing of the
\* run is committed: the committed tables are those the run started with.
C2_NoCommitOnError ==
  (pc[Persister] \in {"ret", "done"} /\ ret[Persister] # Nil) => disk = diskAtStart

\* C3 (as claimed): once an error is recorded, a fetch worker or the persist
\* worker that has stopped receiving has seen its input channel closed and
\* empty.
C3_DrainAfterError ==
  werr # Nil =>
    /\ \A w \in Fetchers : pc[w] \in {"ret", "done"} => (jobsClosed > 0 /\ jobsCh = <<>>)
    /\ pc[Persister] \in {"commit", "ret", "done"} => (buildsClosed > 0 /\ buildsCh = <<>>)

\* C4 (as claimed): no worker is blocked for good sending into a full channel:
\* a sender facing a full channel still has a consumer that has not returned.
C4_NoStuckProducer ==
  /\ (\E w \in Fetchers : pc[w] = "send" /\ Len(buildsCh) >= BuildsChCap)
       => pc[Persister] \notin {"ret", "done"}
  /\ (pc[Discoverer] = "send" /\ Len(jobsCh) >= JobsChCap)
       => \E w \in Fetchers : pc[w] \notin {"ret", "done"}

\* C5: the error register holds the first non-nil error passed to saveErr, in
\* the order of the calls, and nil while there was none; Done returns only
\* after every worker's saveErr, returns that first error, and returns
\* success exactly when every worker returned nil.
C5_FirstErrorWins ==
  /\ werr = FirstNonNil(saveLog)
  /\ result # Pending =>
       /\ result = FirstNonNil(saveLog)
       /\ \A w \in Workers : pc[w] = "done"
       /\ Len(saveLog) = Cardinality(Workers)
       /\ (result = Nil) = (\A w \in Workers : ret[w] = Nil)

C5_Witness ==
  /\ result # Pending
  /\ \E i, j \in DOMAIN saveLog :
       /\ i < j
       /\ saveLog[i] # Nil
       /\ saveLog[j] # Nil
       /\ saveLog[j] # saveLog[i]
       /\ result = saveLog[i]
       /\ \A k \in 1..(i - 1) : saveLog[k] = Nil

\* C6: an upsert of a key that is already stored, at any later point of the
\* writer's life, leaves every table as it was and returns the stored row's
\* id; and from every reachable store state, for every argument, a second
\* application right after the first changes no table and returns the same id.
C6_UpsertIdempotent ==
  /\ (lastOp.op = "UpsertBuild" /\ lastOp.failAt = 0 /\ BuildRowsBefore # {}) =>
       (Tables(db) = lastOp.before /\ lastOp.err = Nil /\ lastOp.id \in BuildRowsBefore)
  /\ (lastOp.op = "UpsertTest" /\ lastOp.failAt = 0 /\ TestRowsBefore # {}) =>
       (Tables(db) = lastOp.before /\ lastOp.err = Nil /\ lastOp.id \in TestRowsBefore)
  /\ (lastOp.op = "UpsertTestResult" /\ lastOp.failAt = 0 /\ ResultRowsBefore # {}) =>
       (Tables(db) = lastOp.before /\ lastOp.err = Nil)
  /\ \A jobID \in JobIDs, number \in BuildNumbers, a \in BuildArgs :
       LET r1 == UpsertBuild(db, jobID, number, a[1], a[2], 0)
           r2 == UpsertBuild(r1.st, jobID, number, a[1], a[2], 0)
       IN Tables(r2.st) = Tables(r1.st) /\ r2.id = r1.id /\ r2.err = Nil
  /\ \A name \in TestNames :
       LET r1 == UpsertTest(db, name, 0)
           r2 == UpsertTest(r1.st, name, 0)
       IN Tables(r2.st) = Tables(r1.st) /\ r2.id = r1.id /\ r2.err = Nil
  /\ \A buildID \in BuildIDs, testID \in TestIDs, status \in ResultArgs :
       LET r1 == UpsertTestResult(db, buildID, testID, status, 0)
           r2 == UpsertTestResult(r1.st, buildID, testID, status, 0)
       IN Tables(r2.st) = Tables(r1.st) /\ r2.err = Nil

\* the third call upserts the first build again after the second build took
\* its place in the cache
C6_Witness ==
  /\ lastOp.op = "UpsertBuild"
  /\ lastOp.failAt = 0
  /\ Len(lastOp.before.builds) = 2
  /\ lastOp.id = 1
  /\ Len(db.builds) = 2

\* C7: in every reachable state of a run, in the transaction's tables and in
\* the committed tables, no two Job rows share a name, no two Build rows a
\* (job, number), no two Test rows a name, no two TestResult rows a
\* (build, test), and no two tag rows a (job, tag).
C7_UniqueKeys == UniqueKeys(db) /\ UniqueKeys(disk)

\* the record of a job seen under the other dashboard, whose build is stored
\* with another status, has gone through FindJob and UpsertBuild
C7_Witness ==
  /\ pc[Persister] = "test"
  /\ pJobID \in DOMAIN db.jobs
  /\ db.jobs[pJobID].dashboard # pCur.JobDashboard
  /\ pBuildID \in DOMAIN db.builds
  /\ db.builds[pBuildID].job_id = pJobID
  /\ db.builds[pBuildID].number = pCur.Number
  /\ db.builds[pBuildID].status # buildStatus(pCur)
  /\ Len(db.builds) = 1

\* C8: UpsertTestResult for a (build, test) pair that has a row returns no
\* error and leaves the results table, the stored status included, as it was.
C8_ResultNeverRevised ==
  (lastOp.op = "UpsertTestResult" /\ ResultRowsBefore # {}) =>
    /\ lastOp.err = Nil
    /\ db.results = lastOp.before.results
    /\ \A i \in ResultRowsBefore : db.results[i].status = lastOp.before.results[i].status

C8_Witness ==
  /\ lastOp.op = "UpsertTestResult"
  /\ \E i \in ResultRowsBefore :
       /\ lastOp.before.results[i].status # lastOp.arg
       /\ db.results[i].status = lastOp.before.results[i].status

\* C9: UpsertBuild for a stored (jobID, number) with another timestamp and
\* status changes no column of the stored row, inserts no row, returns no
\* error and returns the stored row's id.
C9_BuildImmutable ==
  (/\ lastOp.op = "UpsertBuild"
   /\ lastOp.failAt = 0
   /\ \E i \in BuildRowsBefore :
        <<lastOp.before.builds[i].timestamp, lastOp.before.builds[i].status>> # lastOp.arg)
  => /\ db.builds = lastOp.before.builds
     /\ lastOp.err = Nil
     /\ \A i \in BuildRowsBefore : lastOp.id = i

C9_Witness ==
  /\ lastOp.op = "UpsertBuild"
  /\ lastOp.failAt = 0
  /\ lastOp.err = Nil
  /\ \E i \in BuildRowsBefore :
       /\ <<lastOp.before.builds[i].timestamp, lastOp.before.builds[i].status>> # lastOp.arg
       /\ lastOp.id = i
       /\ db.builds = lastOp.before.builds

RECURSIVE Str(_)
Str(cs) == IF cs = <<>> THEN "" ELSE Head(cs) \o Str(Tail(cs))

\* strings.Split(s, sep) for a one-character separator: always at least one
\* element, empty elements kept
RECURSIVE Split(_, _)
Split(s, sep) ==
  LET hits == {i \in DOMAIN s : s[i] = sep}
  IN IF hits = {} THEN <<s>>
     ELSE <<Prefix(s, FirstId(hits) - 1)>> \o
          Split([i \in 1..(Len(s) - FirstId(hits)) |-> s[i + FirstId(hits)]], sep)

\* the characters of the class [a-z0-9.-]
TagChars ==
  {"a", "b", "c", "d", "e", "f", "g", "h", "i", "j", "k", "l", "m", "n", "o", "p", "q",
   "r", "s", "t", "u", "v", "w", "x", "y", "z", "0", "1", "2", "3", "4", "5", "6", "7",
   "8", "9", ".", "-"}

\* tagRe.MatchString(term), tagRe = ^[a-z0-9.-]+$
tagReLoose(term) == \E i \in DOMAIN term : term[i] \in TagChars

tagRe(term) == term # <<>> /\ \A i \in DOMAIN term : term[i] \in TagChars

DigitValue ==
  ("0" :> 0) @@ ("1" :> 1) @@ ("2" :> 2) @@ ("3" :> 3) @@ ("4" :> 4) @@
  ("5" :> 5) @@ ("6" :> 6) @@ ("7" :> 7) @@ ("8" :> 8) @@ ("9" :> 9)

RECURSIVE Digits(_, _)
Digits(cs, acc) ==
  IF cs = <<>> THEN acc ELSE Digits(Tail(cs), 10 * acc + DigitValue[Head(cs)])

\* strconv.ParseInt(per, 10, 0): an optional sign and at least one decimal
\* digit, nothing else (the model's inputs stay far below the int64 range)
ParseInt(per) ==
  LET signed == per # <<>> /\ Head(per) \in {"+", "-"}
      digits == IF signed THEN Tail(per) ELSE per
      ok == digits # <<>> /\ \A i \in DOMAIN digits : digits[i] \in DOMAIN DigitValue
  IN IF ~ok THEN [val |-> 0, err |-> "invalid syntax"]
     ELSE IF signed /\ Head(per) = "-" THEN [val |-> 0 - Digits(digits, 0), err |-> Nil]
     ELSE [val |-> Digits(digits, 0), err |-> Nil]

\* sqlInt64List is used only inside "j.id IN (...)": what the engine sees of
\* the list is the set of its numbers
sqlInt64List(a) == Range(a)

\* the columns a double-quoted token names in "SELECT j.id FROM jobs j JOIN
\* jobs_sippy_tags jstN ...": sqlite reads "x" as the column x when one is in
\* scope and as the string 'x' otherwise
JobTextColumns == {"name", "dashboard", "platform", "mod", "testtype"}

\* the value jstN.tag is compared with for the double-quoted token `tag`, on
\* the row pair (job j, tag row g); the integer column id compares by number
QuotedOperand(st, j, g, tag) ==
  IF tag = "tag" THEN st.tags[g].tag
  ELSE IF tag \in JobTextColumns THEN st.jobs[j][tag]
  ELSE IF tag = "id" THEN ToString(j)
  ELSE tag

\* the jobs_sippy_tags rows the N-th join pairs with job j
JoinedTags(st, j, tag) ==
  {g \in DOMAIN st.tags :
     st.tags[g].job_id = j /\ st.tags[g].tag = QuotedOperand(st, j, g, tag)}

\* rows of the filter query for job j: a JOIN yields one row per paired tag
\* row, a LEFT JOIN with "jstN.job_id IS NULL" one row when none is paired
RECURSIVE FilterRows(_, _, _, _)
FilterRows(st, j, joins, k) ==
  IF k > Len(joins) THEN 1
  ELSE (IF joins[k].left
        THEN (IF JoinedTags(st, j, joins[k].tag) = {} THEN 1 ELSE 0)
        ELSE Cardinality(JoinedTags(st, j, joins[k].tag)))
       * FilterRows(st, j, joins, k + 1)

RECURSIVE FilterQuery(_, _, _)
FilterQuery(st, joins, j) ==
  IF j > Len(st.jobs) THEN <<>>
  ELSE Repeat(j, FilterRows(st, j, joins, 1)) \o FilterQuery(st, joins, j + 1)

\* dbImpl.findJobIDsByFilter; queries counts the statements sent to the store
findJobIDsByFilter(st, filter) ==
  LET terms == SelectSeq(Split(filter, " "), LAMBDA t : Len(t) # 0)
      invalid == {i \in DOMAIN terms : ~tagRe(terms[i])}
      joins == [k \in DOMAIN terms |->
                  IF Head(terms[k]) = "-"
                  THEN [left |-> TRUE, tag |-> Str(Tail(terms[k]))]
                  ELSE [left |-> FALSE, tag |-> Str(terms[k])]]
      ambiguous == Len(joins) > 1 /\ \E k \in DOMAIN joins : joins[k].tag = "tag"
  IN IF invalid # {}
     THEN [ids |-> <<>>, queries |-> 0,
           err |-> "invalid filter term: " \o Str(terms[FirstId(invalid)])]
     ELSE IF ambiguous
     THEN [ids |-> <<>>, queries |-> 1, err |-> "ambiguous column name: tag"]
     ELSE [ids |-> FilterQuery(st, joins, 1), queries |-> 1, err |-> Nil]

(***************************************************************************)
(* QueryBuilder.  A fragment of SQL text is a record of its text, the      *)
(* number n of "?" placeholders in it and, for "j.id IN (...)", the list   *)
(* interpolated into it.  Parameters are kept in the three lists the code  *)
(* keeps and are bound to the placeholders by position, in text order.     *)
(***************************************************************************)
Fragment(text, n, list) == [text |-> text, n |-> n, list |-> list]

EmptyQuery ==
  [columns |-> <<>>, selectParams |-> <<>>, joins |-> <<>>, joinParams |-> <<>>,
   condition |-> <<>>, whereParams |-> <<>>, groupby |-> <<>>]

Select(qb, column, params) ==
  [qb EXCEPT !.columns = Append(@, Fragment(column, Len(params), {})),
             !.selectParams = @ \o params]

Join(qb, j, params) ==
  [qb EXCEPT !.joins = Append(@, Fragment(j, Len(params), {})),
             !.joinParams = @ \o params]

Where(qb, cond, list, params) ==
  [qb EXCEPT !.condition = Append(@, Fragment(cond, Len(params), list)),
             !.whereParams = @ \o params]

GroupBy(qb, column) == [qb EXCEPT !.groupby = Append(@, column)]

\* QueryBuilder.SQL: the text in the order SELECT, JOIN, WHERE, GROUP BY and
\* the parameters in the order select, join, where
SQL(qb) ==
  [columns |-> qb.columns, joins |-> qb.joins, condition |-> qb.condition,
   groupby |-> qb.groupby,
   params |-> qb.selectParams \o qb.joinParams \o qb.whereParams]

RECURSIVE Placeholders(_)
Placeholders(frags) ==
  IF frags = <<>> THEN 0 ELSE Head(frags).n + Placeholders(Tail(frags))

\* the arguments of the k-th fragment of a clause whose first placeholder is
\* the (offset+1)-th of the statement
Args(frags, k, params, offset) ==
  LET skip == offset + Placeholders(Prefix(frags, k - 1))
  IN [i \in 1..frags[k].n |-> params[skip + i]]

\* the table alias a JOIN fragment introduces
Alias(text) ==
  IF text = "jobs j ON j.id = b.job_id" THEN "j"
  ELSE IF text = "jobs_sippy_tags jst ON jst.job_id = j.id" THEN "jst"
  ELSE IF text = "tests t ON t.id = tr.test_id" THEN "t"
  ELSE "tr"

\* The engine's evaluation of the statement over the tables.  A joined row is
\* [b, g, r]: a builds row, the jobs_sippy_tags row and the test_results row
\* joined to it (0 when that table is not joined).
HasJoin(sql, alias) == \E k \in DOMAIN sql.joins : Alias(sql.joins[k].text) = alias

JoinOkAnyTest(st, sql, k, row) ==
  LET text == sql.joins[k].text
  IN IF text = "jobs j ON j.id = b.job_id"
     THEN st.builds[row.b].job_id \in DOMAIN st.jobs
     ELSE IF text = "jobs_sippy_tags jst ON jst.job_id = j.id"
     THEN st.tags[row.g].job_id = st.builds[row.b].job_id
     ELSE IF text \in {"test_results tr ON tr.build_id = b.id",
                       "test_results tr ON tr.build_id = b.id AND tr.test_id = ?"}
     THEN st.results[row.r].build_id = row.b
     ELSE st.results[row.r].test_id \in DOMAIN st.tests

JoinOk(st, sql, k, row) ==
  LET text == sql.joins[k].text
      args == Args(sql.joins, k, sql.params, Placeholders(sql.columns))
  IN IF text = "jobs j ON j.id = b.job_id"
     THEN st.builds[row.b].job_id \in DOMAIN st.jobs
     ELSE IF text = "jobs_sippy_tags jst ON jst.job_id = j.id"
     THEN st.tags[row.g].job_id = st.builds[row.b].job_id
     ELSE IF text = "test_results tr ON tr.build_id = b.id"
     THEN st.results[row.r].build_id = row.b
     ELSE IF text = "test_results tr ON tr.build_id = b.id AND tr.test_id = ?"
     THEN st.results[row.r].build_id = row.b /\ st.results[row.r].test_id = args[1]
     ELSE st.results[row.r].test_id \in DOMAIN st.tests

WhereOk(st, sql, k, row) ==
  LET text == sql.condition[k].text
      args == Args(sql.condition, k, sql.params,
                   Placeholders(sql.columns) + Placeholders(sql.joins))
  IN IF text = "j.id IN" THEN st.builds[row.b].job_id \in sql.condition[k].list
     ELSE IF text = "tr.test_id = ?" THEN st.results[row.r].test_id = args[1]
     ELSE st.builds[row.b].timestamp >= args[1]

JoinedRows(st, sql) ==
  {row \in [b : DOMAIN st.builds,
            g : IF HasJoin(sql, "jst") THEN DOMAIN st.tags ELSE {0},
            r : IF HasJoin(sql, "tr") THEN DOMAIN st.results ELSE {0}] :
     /\ \A k \in DOMAIN sql.joins : JoinOk(st, sql, k, row)
     /\ \A k \in DOMAIN sql.condition : WhereOk(st, sql, k, row)}

\* the value of a plain column expression on a joined row
ColumnValue(st, row, text) ==
  IF text = "jst.tag" THEN st.tags[row.g].tag
  ELSE IF text = "j.name" THEN st.jobs[st.builds[row.b].job_id].name
  ELSE IF text = "j.dashboard" THEN st.jobs[st.builds[row.b].job_id].dashboard
  ELSE IF text = "t.name" THEN st.tests[st.results[row.r].test_id].name
  ELSE IF text = "tr.status" THEN st.results[row.r].status
  ELSE st.builds[row.b].status

\* SUM(<window test>) over the joined rows of one group
WindowOk(text, args, timestamp) ==
  IF text = "SUM(? <= b.timestamp)" THEN args[1] <= timestamp
  ELSE args[1] <= timestamp /\ timestamp < args[2]

IsSum(text) ==
  text \in {"SUM(? <= b.timestamp)", "SUM(? <= b.timestamp AND b.timestamp < ?)"}

GroupKey(st, sql, row) == [i \in DOMAIN sql.groupby |-> ColumnValue(st, row, sql.groupby[i])]

OutputRow(st, sql, group) ==
  [k \in DOMAIN sql.columns |->
     IF IsSum(sql.columns[k].text)
     THEN Cardinality({row \in group :
            WindowOk(sql.columns[k].text, Args(sql.columns, k, sql.params, 0),
                     st.builds[row.b].timestamp)})
     ELSE ColumnValue(st, CHOOSE row \in group : TRUE, sql.columns[k].text)]

RECURSIVE SetToSeq(_)
SetToSeq(set) ==
  IF set = {} THEN <<>>
  ELSE LET x == CHOOSE x \in set : TRUE IN <<x>> \o SetToSeq(set \ {x})

\* db.Query(sql, params...): one output row per group, in the order the
\* engine yields them (no ORDER BY: any order; the model fixes one); a table
\* alias joined twice makes its columns ambiguous and the statement fail
Query(st, sql) ==
  LET rows == JoinedRows(st, sql)
      keys == {GroupKey(st, sql, row) : row \in rows}
      groupOf(key) == {row \in rows : GroupKey(st, sql, row) = key}
      twice == \E k1, k2 \in DOMAIN sql.joins :
                 k1 # k2 /\ Alias(sql.joins[k1].text) = Alias(sql.joins[k2].text)
  IN IF twice THEN [rows |-> <<>>, err |-> "ambiguous column name"]
     ELSE [rows |-> SetToSeq({OutputRow(st, sql, groupOf(key)) : key \in keys}),
           err |-> Nil]

(***************************************************************************)
(* dbImpl.BuildStats.  now is time.Now().Unix(); timestamps are in         *)
(* milliseconds.                                                           *)
(***************************************************************************)
StatsValues(pass, flake, fail) == [Pass |-> pass, Flake |-> flake, Fail |-> fail]

\* &StatsRow{Columns: columnsValues, Values: make([]StatsValues, len(periodsPtrs))}
StatsRowShort(columnsValues, n) ==
  [Columns |-> columnsValues, Values |-> [i \in 1..(n - 1) |-> StatsValues(0, 0, 0)]]

StatsRow(columnsValues, n) ==
  [Columns |-> columnsValues, Values |-> [i \in 1..n |-> StatsValues(0, 0, 0)]]

\* the bucket the fold adds a row's sums to, "" for none
BucketUnknownFails(statusField, status) ==
  IF statusField = "tr.status"
  THEN (IF status \in {TestStatusPass, TestStatusPassWithSkips} THEN "Pass"
        ELSE IF status = TestStatusFlaky THEN "Flake"
        ELSE "Fail")
  ELSE (IF status = 1 THEN "Pass" ELSE "Fail")

BucketFlakyFails(statusField, status) ==
  IF statusField = "tr.status"
  THEN (IF status \in {TestStatusPass, TestStatusPassWithSkips} THEN "Pass"
        ELSE IF status \in {TestStatusFlaky, TestStatusFail} THEN "Fail"
        ELSE "")
  ELSE (IF status = 1 THEN "Pass" ELSE IF status = 2 THEN "Fail" ELSE "")

Bucket(statusField, status) ==
  IF statusField = "tr.status"
  THEN (IF status \in {TestStatusPass, TestStatusPassWithSkips} THEN "Pass"
        ELSE IF status = TestStatusFlaky THEN "Flake"
        ELSE IF status = TestStatusFail THEN "Fail"
        ELSE "")
  ELSE (IF status = 1 THEN "Pass" ELSE IF status = 2 THEN "Fail" ELSE "")

\* key += "/" + *p
RECURSIVE RowKey(_)
RowKey(columnsValues) ==
  IF columnsValues = <<>> THEN ""
  ELSE "/" \o Head(columnsValues) \o RowKey(Tail(columnsValues))

\* the body of "for rows.Next()": rows.Scan fills the column pointers, status
\* and the period pointers from the output row by position
RECURSIVE Fold(_, _, _, _, _, _)
Fold(data, rows, k, nc, np, statusField) ==
  IF k > Len(rows) THEN data
  ELSE LET columnsValues == Prefix(rows[k], nc)
           status == rows[k][nc + 1]
           key == RowKey(columnsValues)
           seen == {i \in DOMAIN data : RowKey(data[i].Columns) = key}
           data1 == IF seen = {} THEN Append(data, StatsRow(columnsValues, np)) ELSE data
           at == IF seen = {} THEN Len(data1) ELSE FirstId(seen)
           bucket == Bucket(statusField, status)
           data2 == IF bucket = "" THEN data1
                    ELSE [data1 EXCEPT ![at].Values =
                            [i \in DOMAIN @ |->
                               [@[i] EXCEPT ![bucket] = @ + rows[k][nc + 1 + i]]]]
       IN Fold(data2, rows, k + 1, nc, np, statusField)

\* the loop over strings.Split(columns, ","); q is [query, statusField, nc, err]
RECURSIVE ColumnsLoop(_, _, _)
ColumnsLoop(q, cols, k) ==
  IF k > Len(cols) THEN q
  ELSE IF Str(cols[k]) = "sippytags"
  THEN ColumnsLoop(
         [q EXCEPT !.nc = @ + 1,
                   !.query = GroupBy(Select(Join(@, "jobs_sippy_tags jst ON jst.job_id = j.id",
                                                 <<>>), "jst.tag", <<>>), "jst.tag")],
         cols, k + 1)
  ELSE IF Str(cols[k]) = "name"
  THEN ColumnsLoop([q EXCEPT !.nc = @ + 1,
                             !.query = GroupBy(Select(@, "j.name", <<>>), "j.name")],
                   cols, k + 1)
  ELSE IF Str(cols[k]) = "dashboard"
  THEN ColumnsLoop([q EXCEPT !.nc = @ + 1,
                             !.query = GroupBy(Select(@, "j.dashboard", <<>>), "j.dashboard")],
                   cols, k + 1)
  ELSE IF Str(cols[k]) = "test"
  THEN ColumnsLoop(
         [q EXCEPT !.nc = @ + 1, !.statusField = "tr.status",
                   !.query = GroupBy(Select(Join(Join(@, "test_results tr ON tr.build_id = b.id",
                                                      <<>>),
                                                 "tests t ON t.id = tr.test_id", <<>>),
                                            "t.name", <<>>), "t.name")],
         cols, k + 1)
  ELSE [q EXCEPT !.err = "unknown column " \o Str(cols[k])]

\* the loop over strings.Split(periods, ","); q is [query, np, days, err]
RECURSIVE PeriodsLoop(_, _, _, _)
PeriodsLoop(q, pers, k, now) ==
  LET p == ParseInt(pers[k])
  IN IF k > Len(pers) THEN q
     ELSE IF p.err # Nil THEN [q EXCEPT !.err = p.err]
     ELSE IF q.days = 0
     THEN PeriodsLoop(
            [q EXCEPT !.np = @ + 1, !.days = @ + p.val,
                      !.query = Select(@, "SUM(? <= b.timestamp)",
                                       <<(now - 86400 * p.val) * 1000>>)],
            pers, k + 1, now)
     ELSE PeriodsLoop(
            [q EXCEPT !.np = @ + 1, !.days = @ + p.val,
                      !.query = Select(@, "SUM(? <= b.timestamp AND b.timestamp < ?)",
                                       << (now - 86400 * (q.days + p.val)) * 1000,
                                          (now - 86400 * q.days) * 1000 >>)],
            pers, k + 1, now)

\* what BuildStats returns: (*Stats, error) and, for the claims about what
\* it executes and what it leaves behind, the statements it sent to the store
\* in order and the store after the call
StatsRet(st, stats, err, queries) ==
  [st |-> st, stats |-> stats, err |-> err, queries |-> queries]

\* results := Stats{Data: []*StatsRow{}}
EmptyStats == [Data |-> <<>>]

\* the part of BuildStats after the columns loop: testName, the status
\* column, the periods, the grouped statement and the fold
BuildStatsFrom(st, q, periods, testName, now, queries) ==
  LET found == FindTest(st, testName, 0)
      pinned == testName # ""
      q1 == IF ~pinned THEN q
            ELSE IF q.statusField = "tr.status"
            THEN [q EXCEPT !.query = Where(@, "tr.test_id = ?", {}, <<found.id>>)]
            ELSE [q EXCEPT !.statusField = "tr.status",
                           !.query = Join(@, "test_results tr ON tr.build_id = b.id AND tr.test_id = ?",
                                          <<found.id>>)]
      queries1 == IF pinned THEN Append(queries, "findtest") ELSE queries
      q2 == GroupBy(Select(q1.query, q1.statusField, <<>>), q1.statusField)
      q3 == PeriodsLoop([query |-> q2, np |-> 0, days |-> 0, err |-> Nil],
                        Split(periods, ","), 1, now)
      q4 == Where(q3.query, "b.timestamp >= ?", {}, <<(now - 86400 * q3.days) * 1000>>)
      st1 == IF pinned THEN found.st ELSE st
      res == Query(st1, SQL(q4))
  IN IF pinned /\ IsNotFound(found.err) THEN StatsRet(st1, EmptyStats, Nil, queries1)
     ELSE IF q3.err # Nil THEN StatsRet(st1, Nil, q3.err, queries1)
     ELSE IF res.err # Nil THEN StatsRet(st1, Nil, res.err, Append(queries1, "grouped"))
     ELSE StatsRet(st1, [Data |-> Fold(<<>>, res.rows, 1, q1.nc, q3.np, q1.statusField)],
                   Nil, Append(queries1, "grouped"))

BuildStats(st, columns, filter, periods, testName, now) ==
  LET query0 == Join(EmptyQuery, "jobs j ON j.id = b.job_id", <<>>)
      found == findJobIDsByFilter(st, filter)
      filtered == filter # <<>>
      query1 == IF filtered THEN Where(query0, "j.id IN", sqlInt64List(found.ids), <<>>)
                ELSE query0
      queries == IF filtered /\ found.queries > 0 THEN <<"filter">> ELSE <<>>
      q == ColumnsLoop([query |-> query1, statusField |-> "b.status", nc |-> 0, err |-> Nil],
                       Split(columns, ","), 1)
  IN IF filtered /\ found.err # Nil THEN StatsRet(st, Nil, found.err, queries)
     ELSE IF filtered /\ Len(found.ids) = 0 THEN StatsRet(st, EmptyStats, Nil, queries)
     ELSE IF q.err # Nil THEN StatsRet(st, Nil, q.err, queries)
     ELSE BuildStatsFrom(st, q, periods, testName, now, queries)

(***************************************************************************)
(* The aggregation engine over stores written by the persist worker: each  *)
(* step either persists one build record (the body of the persist loop,    *)
(* without failure, committed) or answers one request.                     *)
(***************************************************************************)
\* the tests loop of the persist worker, over the map in the order `order`
RECURSIVE PersistTests(_, _, _, _, _)
PersistTests(st, buildID, build, order, k) ==
  IF k > Len(order) THEN st
  ELSE LET t == UpsertTest(st, order[k], 0)
       IN PersistTests(UpsertTestResult(t.st, buildID, t.id, build.Tests[order[k]], 0).st,
                       buildID, build, order, k + 1)

\* one iteration of "for build := range buildsCh"
PersistBuild(st, build, order) ==
  LET found == FindJob(st, build.JobName, 0)
      job == IF IsNotFound(found.err)
             THEN InsertJob(found.st, build.JobName, build.JobDashboard,
                            jobTags(build.JobDashboard, build.JobName), 0)
             ELSE found
      b == UpsertBuild(job.st, job.id, build.Number, build.Timestamp, buildStatus(build), 0)
  IN IF hasRunning(build) THEN st ELSE PersistTests(b.st, b.id, build, order, 1)

\* time.Now().Unix() when the request is answered: the start of day 16
QueryNow == 1382400

DaysAgo(d) == (QueryNow - 86400 * d) * 1000

\* what the Result Source returned for the persisted builds; 6 is a status of
\* the provider's enumeration (UNKNOWN) that testgrid.TestStatus does not name
StatsResults ==
  { <<JobA, Packed1("b1", DaysAgo(1), TestStatusPass, TestStatusFlaky)>>,
    <<JobA, Packed1("b2", DaysAgo(8), TestStatusFail, TestStatusPass)>>,
    <<JobA, Packed1("b2", DaysAgo(7), TestStatusFlaky, TestStatusFail)>>,
    <<JobB, Packed1("b1", DaysAgo(15), TestStatusPass, TestStatusNoResult)>>,
    <<JobB, Packed1("b1", DaysAgo(0), TestStatusPassWithSkips, TestStatusPass)>>,
    <<JobB, Packed1("b2", DaysAgo(0) + 1, TestStatusFail, TestStatusNoResult)>>,
    <<JobB, Packed1("b3", DaysAgo(3), TestStatusNoResult, 6)>> }

StatsBuilds ==
  {flatten([Dashboard |-> Dashboard48, Name |-> in[1]], unpackJobResults(in[2]))[1] :
     in \in StatsResults}

Orders(names) ==
  {o \in [1..Cardinality(names) -> names] : \A i, j \in DOMAIN o : i # j => o[i] # o[j]}

\* the columns parameter: name; sippytags; test; dashboard,test; bogus
ColumnsInputs ==
  { <<"n", "a", "m", "e">>,
    <<"s", "i", "p", "p", "y", "t", "a", "g", "s">>,
    <<"t", "e", "s", "t">>,
    <<"d", "a", "s", "h", "b", "o", "a", "r", "d", ",", "t", "e", "s", "t">>,
    <<"b", "o", "g", "u", "s">> }

\* the filter parameter: empty; aws -fips; -promote; tag; zzz; aws a!
FilterInputs ==
  { <<>>,
    <<"a", "w", "s", " ", "-", "f", "i", "p", "s">>,
    <<"-", "p", "r", "o", "m", "o", "t", "e">>,
    <<"t", "a", "g">>,
    <<"z", "z", "z">>,
    <<"a", "w", "s", " ", "a", "!">> }

\* the periods parameter: 7,7; 7; 0,7; 7,-7,7; 7,x
PeriodsInputs ==
  { <<"7", ",", "7">>,
    <<"7">>,
    <<"0", ",", "7">>,
    <<"7", ",", "-", "7", ",", "7">>,
    <<"7", ",", "x">> }

\* the testname parameter
TestNameInputs == {"", "Overall", "nope"}

\* BuildStats does not call findJobIDsByFilter for an empty filter
NotCalled == [ids |-> <<>>, queries |-> 0, err |-> Nil]

InitStats ==
  /\ srcFaults = 0
  /\ faults = 0
  /\ InitRun(EmptyTables)

\* a run of the indexer that persists one build record and commits; the next
\* process opens the store anew
IngestBuild ==
  /\ calls < MaxBuilds
  /\ lastOp.op # "BuildStats"
  /\ \E build \in StatsBuilds : \E order \in Orders(DOMAIN build.Tests) :
       /\ db' = OpenDB(Tables(PersistBuild(db, build, order)))
       /\ disk' = Tables(PersistBuild(db, build, order))
  /\ lastOp' = NoOp
  /\ calls' = calls + 1
  /\ UNCHANGED <<faults, Idle>>

\* ServeHTTP calls BuildStats: one request answered by the connection the
\* server opened over the committed tables; found is what the
\* findJobIDsByFilter call inside BuildStats returned
CallBuildStats ==
  /\ lastOp.op # "BuildStats"
  /\ \E columns \in ColumnsInputs, filter \in FilterInputs, periods \in PeriodsInputs,
        testName \in TestNameInputs :
       LET r == BuildStats(db, columns, filter, periods, testName, QueryNow)
       IN /\ lastOp' = [op |-> "BuildStats", columns |-> columns, filter |-> filter,
                        periods |-> periods, testName |-> testName, now |-> QueryNow,
                        found |-> IF filter = <<>> THEN NotCalled
                                  ELSE findJobIDsByFilter(db, filter),
                        r |-> r]
          /\ db' = r.st
  /\ UNCHANGED <<disk, calls, faults, Idle>>

\* ServeHTTP returns: the response is written and the request is over
Respond ==
  /\ lastOp.op = "BuildStats"
  /\ lastOp' = NoOp
  /\ UNCHANGED <<disk, db, calls, faults, Idle>>

NextStats ==
  \/ IngestBuild
  \/ CallBuildStats
  \/ Respond

SpecStats == InitStats /\ [][NextStats]_vars

(***************************************************************************)
(* Properties of the aggregation engine.                                   *)
(***************************************************************************)
Answered == lastOp.op = "BuildStats"

\* the day-counts of a periods parameter whose elements all parse
Parses(periods) == \A k \in DOMAIN Split(periods, ",") : ParseInt(Split(periods, ",")[k]).err = Nil

DayCounts(periods) == [k \in DOMAIN Split(periods, ",") |-> ParseInt(Split(periods, ",")[k]).val]

RECURSIVE SumTo(_, _)
SumTo(N, i) == IF i = 0 THEN 0 ELSE N[i] + SumTo(N, i - 1)

\* window i of the day-counts N as the specification lays it out:
\* now-(N1+..+Ni) days <= t < now-(N1+..+N(i-1)) days, t in milliseconds
InWindow(N, i, t, now) ==
  /\ (now - 86400 * SumTo(N, i)) * 1000 <= t
  /\ t < (now - 86400 * SumTo(N, i - 1)) * 1000

\* a build-level request grouped by job name, no filter, no pinned test
PerJob ==
  /\ Answered
  /\ Str(lastOp.columns) = "name"
  /\ lastOp.filter = <<>>
  /\ lastOp.testName = ""

\* the builds of job j counted in window i of the response: the sum of the
\* three buckets of the job's row, 0 when the response has no row for it
CountedFor(columnsValues, i) ==
  LET rows == {k \in DOMAIN lastOp.r.stats.Data :
                 lastOp.r.stats.Data[k].Columns = columnsValues}
      v == lastOp.r.stats.Data[CHOOSE k \in rows : TRUE].Values[i]
  IN IF rows = {} THEN 0 ELSE v.Pass + v.Flake + v.Fail

BuildsOf(j) == {b \in DOMAIN disk.builds : disk.builds[b].job_id = j}

\* C11: for positive day-counts and builds not later than now, a build is
\* counted in window i exactly when now-(N0+..+Ni) days <= t <
\* now-(N0+..+N(i-1)) days (so in at most one window, and in none when older
\* than all the day-counts together).
C11_WindowPartition ==
  (/\ PerJob
   /\ Parses(lastOp.periods)
   /\ \A k \in DOMAIN DayCounts(lastOp.periods) : DayCounts(lastOp.periods)[k] > 0
   /\ \A b \in DOMAIN disk.builds : disk.builds[b].timestamp <= lastOp.now * 1000)
  => /\ lastOp.r.err = Nil
     /\ \A j \in DOMAIN disk.jobs : \A i \in DOMAIN DayCounts(lastOp.periods) :
          CountedFor(<<disk.jobs[j].name>>, i) =
            Cardinality({b \in BuildsOf(j) :
                           InWindow(DayCounts(lastOp.periods), i, disk.builds[b].timestamp,
                                    lastOp.now)})

\* C12: window 0 ends at now: a build whose timestamp is at or after now is
\* not counted in window 0.
C12_WindowZeroEndsAtNow ==
  (PerJob /\ lastOp.r.err = Nil)
  => \A j \in DOMAIN disk.jobs :
       CountedFor(<<disk.jobs[j].name>>, 1) <=
         Cardinality({b \in BuildsOf(j) : disk.builds[b].timestamp < lastOp.now * 1000})

\* C13: whatever day-counts are accepted (zero and negative ones included),
\* no build is counted in two windows of the same request.
C13_WindowsDisjoint ==
  (PerJob /\ lastOp.r.err = Nil)
  => \A j \in DOMAIN disk.jobs :
       SumTo([i \in DOMAIN DayCounts(lastOp.periods) |-> CountedFor(<<disk.jobs[j].name>>, i)],
             Len(DayCounts(lastOp.periods)))
         <= Cardinality(BuildsOf(j))

\* the terms of a filter: the non-empty elements between spaces
Terms(filter) == SelectSeq(Split(filter, " "), LAMBDA t : Len(t) # 0)

HasInvalidTerm(filter) ==
  \E k \in DOMAIN Terms(filter) : \E i \in DOMAIN Terms(filter)[k] :
    Terms(filter)[k][i] \notin TagChars

\* the tags a valid filter requires and excludes
Required(filter) ==
  {Str(Terms(filter)[k]) : k \in {n \in DOMAIN Terms(filter) : Head(Terms(filter)[n]) # "-"}}

Excluded(filter) ==
  {Str(Tail(Terms(filter)[k])) :
     k \in {n \in DOMAIN Terms(filter) : Head(Terms(filter)[n]) = "-"}}

\* the jobs that carry every required tag and no excluded one
Selected(filter) ==
  {j \in DOMAIN disk.jobs :
     /\ Required(filter) \subseteq TagsOf(disk, j)
     /\ Excluded(filter) \cap TagsOf(disk, j) = {}}

\* C14: for a valid filter findJobIDsByFilter returns exactly the jobs that
\* carry every bare-token tag and none of the '-'-prefixed tags, each job id
\* once, and BuildStats counts only builds of those jobs.
C14_FilterSelects ==
  (Answered /\ lastOp.filter # <<>> /\ ~HasInvalidTerm(lastOp.filter))
  => /\ lastOp.found.err = Nil
     /\ Range(lastOp.found.ids) = Selected(lastOp.filter)
     /\ Len(lastOp.found.ids) = Cardinality(Selected(lastOp.filter))
     /\ (Str(lastOp.columns) = "name" /\ lastOp.r.err = Nil)
          => \A k \in DOMAIN lastOp.r.stats.Data :
               \E j \in Selected(lastOp.filter) :
                 lastOp.r.stats.Data[k].Columns = <<disk.jobs[j].name>>

\* C15: a filter containing a non-empty term with a character outside
\* [a-z0-9.-] is rejected: findJobIDsByFilter returns an error before any
\* statement is sent to the store and BuildStats returns that error with no
\* result, whatever the other terms and parameters are.
C15_InvalidTermRejected ==
  (Answered /\ HasInvalidTerm(lastOp.filter))
  => /\ lastOp.found.err # Nil
     /\ lastOp.found.queries = 0
     /\ lastOp.r.err = lastOp.found.err
     /\ lastOp.r.stats = Nil
     /\ lastOp.r.queries = <<>>

\* an invalid term after a valid one, over a store with jobs, in a request
\* whose other parameters are invalid too
C15_Witness ==
  /\ Answered
  /\ HasInvalidTerm(lastOp.filter)
  /\ Len(Terms(lastOp.filter)) > 1
  /\ Len(disk.jobs) > 0
  /\ Str(lastOp.columns) = "bogus"
  /\ ~Parses(lastOp.periods)
  /\ lastOp.testName = "nope"
  /\ lastOp.r.err = "invalid filter term: a!"

\* C16: a request with an unparsable period value fails with an error and
\* returns no data, whatever the filter, columns and testname are.
C16_BadPeriodFails ==
  (Answered /\ ~Parses(lastOp.periods))
  => (lastOp.r.err # Nil /\ lastOp.r.stats = Nil)

\* The counts a request asks for, stated over the tables.  A unit is what is
\* counted: a build (r = 0) or, in test-level mode, one of its test results,
\* once per tag of its job when the request groups by tag (tag = "" otherwise).
ReqColumns == [k \in DOMAIN Split(lastOp.columns, ",") |-> Str(Split(lastOp.columns, ",")[k])]

TestLevel == lastOp.testName # "" \/ "test" \in Range(ReqColumns)

UnitTags(b) ==
  IF "sippytags" \in Range(ReqColumns) THEN TagsOf(disk, disk.builds[b].job_id) ELSE {""}

UnitResults(b) ==
  IF TestLevel
  THEN {r \in DOMAIN disk.results :
          /\ disk.results[r].build_id = b
          /\ lastOp.testName # "" => disk.tests[disk.results[r].test_id].name = lastOp.testName}
  ELSE {0}

Units ==
  UNION {[b : {b}, tag : UnitTags(b), r : UnitResults(b)] :
           b \in {x \in DOMAIN disk.builds :
                    lastOp.filter # <<>> => disk.builds[x].job_id \in Range(lastOp.found.ids)}}

UnitColumns(u) ==
  [k \in DOMAIN ReqColumns |->
     IF ReqColumns[k] = "sippytags" THEN u.tag
     ELSE IF ReqColumns[k] = "name" THEN disk.jobs[disk.builds[u.b].job_id].name
     ELSE IF ReqColumns[k] = "dashboard" THEN disk.jobs[disk.builds[u.b].job_id].dashboard
     ELSE disk.tests[disk.results[u.r].test_id].name]

UnitStatus(u) == IF u.r = 0 THEN disk.builds[u.b].status ELSE disk.results[u.r].status

\* the test the statement makes for window i of the day-counts N: the
\* lower bound alone while the day-counts before it add up to 0, and never
\* older than all the day-counts together
StatementWindow(N, i, t, now) ==
  /\ (now - 86400 * SumTo(N, i)) * 1000 <= t
  /\ SumTo(N, i - 1) # 0 => t < (now - 86400 * SumTo(N, i - 1)) * 1000
  /\ (now - 86400 * SumTo(N, Len(N))) * 1000 <= t

\* the units of group columnsValues in window i whose status is in statuses
UnitsIn(columnsValues, i, statuses) ==
  {u \in Units :
     /\ UnitColumns(u) = columnsValues
     /\ UnitStatus(u) \in statuses
     /\ StatementWindow(DayCounts(lastOp.periods), i, disk.builds[u.b].timestamp, lastOp.now)}

PassStatuses == IF TestLevel THEN {TestStatusPass, TestStatusPassWithSkips} ELSE {1}
FlakeStatuses == IF TestLevel THEN {TestStatusFlaky} ELSE {}
FailStatuses == IF TestLevel THEN {TestStatusFail} ELSE {2}

\* the request ran the grouped statement and folded its rows
Folded == Answered /\ lastOp.r.err = Nil /\ "grouped" \in Range(lastOp.r.queries)

\* C17: in build-level mode status 1 adds to pass and 2 to fail; in
\* test-level mode pass and pass-with-skips add to pass, flaky to flake and
\* fail to fail, in every window, and no status adds to two buckets.
C17_Classification ==
  Folded =>
    \A k \in DOMAIN lastOp.r.stats.Data : \A i \in DOMAIN lastOp.r.stats.Data[k].Values :
      LET row == lastOp.r.stats.Data[k]
      IN /\ row.Values[i].Pass = Cardinality(UnitsIn(row.Columns, i, PassStatuses))
         /\ row.Values[i].Flake = Cardinality(UnitsIn(row.Columns, i, FlakeStatuses))
         /\ row.Values[i].Fail = Cardinality(UnitsIn(row.Columns, i, FailStatuses))

\* a test-level response with a pass, a flake and a fail in it, and a
\* build-level one with a pass and a fail
C17_Witness ==
  /\ Folded
  /\ \E k \in DOMAIN lastOp.r.stats.Data : \E i \in DOMAIN lastOp.r.stats.Data[k].Values :
       LET v == lastOp.r.stats.Data[k].Values[i]
       IN IF TestLevel THEN v.Pass > 0 /\ v.Flake > 0 /\ v.Fail > 0
          ELSE v.Pass > 0 /\ v.Fail > 0
  /\ Str(lastOp.columns) \in {"dashboard,test", "name"}
  /\ TestLevel => Len(lastOp.r.stats.Data) = 1

\* the rows of a response, as a set: their order is the engine's
RowSet(stats) == {stats.Data[k] : k \in DOMAIN stats.Data}

\* C18: a query pinned to the test "Overall" returns, per group and window,
\* the same pass, flake and fail counts as the build-level query with the
\* same columns, filter and periods.
C18_OverallPinEqualsBuildLevel ==
  (/\ Answered
   /\ lastOp.testName = "Overall"
   /\ "test" \notin Range(ReqColumns)
   /\ Parses(lastOp.periods)
   /\ lastOp.r.err = Nil)
  => LET plain == BuildStats(OpenDB(disk), lastOp.columns, lastOp.filter, lastOp.periods, "",
                             lastOp.now)
     IN plain.err = Nil /\ RowSet(plain.stats) = RowSet(lastOp.r.stats)

\* the testname parameter names a test of the store
TestExists(name) == \E t \in DOMAIN disk.tests : disk.tests[t].name = name

ShortCircuited ==
  /\ lastOp.r.err = Nil
  /\ lastOp.r.stats = EmptyStats
  /\ "grouped" \notin Range(lastOp.r.queries)

C20_OneEntryPerWindow ==
  Folded =>
    \A k \in DOMAIN lastOp.r.stats.Data :
      LET row == lastOp.r.stats.Data[k]
      IN /\ Len(row.Values) = Len(Split(lastOp.periods, ","))
         /\ \A i \in DOMAIN row.Values :
              /\ row.Values[i].Pass + row.Values[i].Flake + row.Values[i].Fail =
                   Cardinality(UnitsIn(row.Columns, i,
                                       PassStatuses \cup FlakeStatuses \cup FailStatuses))
              /\ UnitsIn(row.Columns, i, PassStatuses \cup FlakeStatuses \cup FailStatuses) = {}
                   => row.Values[i] = StatsValues(0, 0, 0)

\* a row whose first window is empty and whose second is not, next to a row
\* for which it is the other way round
C20_Witness ==
  /\ Folded
  /\ Str(lastOp.periods) = "7,7"
  /\ \E k1, k2 \in DOMAIN lastOp.r.stats.Data :
       /\ lastOp.r.stats.Data[k1].Values[1] = StatsValues(0, 0, 0)
       /\ lastOp.r.stats.Data[k1].Values[2] # StatsValues(0, 0, 0)
       /\ lastOp.r.stats.Data[k2].Values[1] # StatsValues(0, 0, 0)
       /\ lastOp.r.stats.Data[k2].Values[2] = StatsValues(0, 0, 0)

\* the statuses the fold knows, per mode
KnownTestStatuses ==
  {TestStatusPass, TestStatusPassWithSkips, TestStatusFlaky, TestStatusFail}

KnownBuildStatuses == {1, 2}

\* the tables without the test results whose status the fold does not know
WithoutUnknown(t) ==
  [t EXCEPT !.results = SelectSeq(@, LAMBDA row : row.status \in KnownTestStatuses)]

\* the rows of a response that carry a count
Counting(stats) ==
  {row \in RowSet(stats) :
     \E i \in DOMAIN row.Values : row.Values[i] # StatsValues(0, 0, 0)}

\* C21: a result row whose status is outside the known enumeration never
\* makes the request fail and adds nothing to any count: a request that gets
\* as far as the grouped statement succeeds, its counts are those of the same
\* request over the tables without the rows of unknown status, and the fold
\* has no bucket for any status outside the enumeration of its mode.
C21_UnknownStatusSkipped ==
  /\ \A status \in 0..16 :
       /\ status \notin KnownTestStatuses => Bucket("tr.status", status) = ""
       /\ status \notin KnownBuildStatuses => Bucket("b.status", status) = ""
  /\ (Answered /\ "grouped" \in Range(lastOp.r.queries)) =>
       LET known == BuildStats(OpenDB(WithoutUnknown(disk)), lastOp.columns, lastOp.filter,
                               lastOp.periods, lastOp.testName, lastOp.now)
       IN /\ lastOp.r.err = Nil
          /\ known.err = Nil
          /\ Counting(lastOp.r.stats) = Counting(known.stats)

\* a test-level response over a store whose only result for the test t1 has
\* the status 6: the group t1 is there and every count of it is zero
C21_Witness ==
  /\ Folded
  /\ Str(lastOp.columns) = "test"
  /\ Str(lastOp.periods) = "7,7"
  /\ \E r \in DOMAIN disk.results :
       /\ disk.results[r].status = 6
       /\ disk.tests[disk.results[r].test_id].name = "t1"
       /\ disk.builds[disk.results[r].build_id].timestamp = DaysAgo(3)
  /\ \E k \in DOMAIN lastOp.r.stats.Data :
       /\ lastOp.r.stats.Data[k].Columns = <<"t1">>
       /\ \A i \in DOMAIN lastOp.r.stats.Data[k].Values :
            lastOp.r.stats.Data[k].Values[i] = StatsValues(0, 0, 0)

\* the connection after the persist worker took up a build record: the
\* jobs, builds and tests caches hold an entry each
Warm(st) ==
  PersistBuild(st, CHOOSE build \in StatsBuilds : build.Number = "b1" /\ build.JobName = JobA,
               <<"Overall", "t1">>)

\* C22: an aggregation request, successful or failing, leaves ingestion state
\* unchanged: the step that answers it changes neither the tables nor the
\* caches of the connection nor the committed tables, and the same request
\* and the testname lookup alone, issued on a connection whose caches are
\* full, leave that connection as it was.
C22_AggregationFrame ==
  /\ [][lastOp'.op = "BuildStats" => (db' = db /\ disk' = disk)]_vars
  /\ [](Answered =>
          /\ BuildStats(Warm(db), lastOp.columns, lastOp.filter, lastOp.periods,
                        lastOp.testName, lastOp.now).st = Warm(db)
          /\ FindTest(Warm(db), lastOp.testName, 0).st = Warm(db))

\* a request that fails on its periods after the filter statement and the
\* testname lookup ran over a store with rows
C22_Witness ==
  /\ Answered
  /\ lastOp.r.err = "invalid syntax"
  /\ lastOp.r.queries = <<"filter", "findtest">>
  /\ Len(disk.results) > 2
  /\ lastOp.r.st = db
  /\ Tables(db) = disk
  /\ db.testsCache = <<>>

(***************************************************************************)
(* Properties of the store and of the pipeline, continued.                 *)
(***************************************************************************)
\* the jobs whose builds have a result for test id in tables t
JobsWithResultFor(t, id) ==
  {t.builds[t.results[r].build_id].job_id :
     r \in {x \in DOMAIN t.results : t.results[x].test_id = id}}

\* C23: test identity is global: a name has at most one row in the tests
\* table, whatever jobs contain it, a stored row keeps its name, and the id
\* UpsertTest returned to the persist worker is the id of the one row with
\* the test's name, for every job.
C23_TestIdentityGlobal ==
  /\ [](/\ \A i, j \in DOMAIN db.tests : db.tests[i].name = db.tests[j].name => i = j
        /\ \A i, j \in DOMAIN disk.tests : disk.tests[i].name = disk.tests[j].name => i = j
        /\ pc[Persister] = "result" => selectTest(db, pTestName) = {pTestID})
  /\ [][\A i \in DOMAIN db.tests : i \in DOMAIN db.tests' /\ db.tests'[i] = db.tests[i]]_vars

\* UpsertTest returned, for a build of one job, the id under which a build of
\* the other job has its result for the test of the same name
C23_Witness ==
  /\ pc[Persister] = "result"
  /\ selectTest(db, pTestName) = {pTestID}
  /\ pJobID \in DOMAIN db.jobs
  /\ JobsWithResultFor(db, pTestID) # {}
  /\ pJobID \notin JobsWithResultFor(db, pTestID)
  /\ Len(db.jobs) = 2

(***************************************************************************)
(* The store under a caller that races with another writer of the same     *)
(* database.  The caller issues FindJob, InsertJob after a NotFound, and    *)
(* the two halves of UpsertBuild; between its lookup and its insert the     *)
(* other writer, on a connection of its own, may insert the row the lookup  *)
(* did not find, and the caller's insert sees it.  The caller's insert over *)
(* such a row is either ignored under the unique index or fails (the store  *)
(* refusing the write): the failure points cover the second outcome.        *)
(***************************************************************************)
\* calls the racing caller issues
MaxRaceCalls == 4

InitRace ==
  /\ srcFaults = 0
  /\ faults = MaxStoreFaults
  /\ InitRun(EmptyTables)

RaceFindJob ==
  /\ calls < MaxRaceCalls
  /\ \E name \in JobNames, failAt \in FailPoints(1) :
       LET r == FindJob(db, name, failAt)
       IN /\ Injected(failAt, r, FindJob(db, name, 0))
          /\ faults' = Spend(failAt # 0)
          /\ db' = r.st
          /\ lastOp' = Called("FindJob", name, "", failAt, r)
  /\ calls' = calls + 1
  /\ UNCHANGED <<disk, Idle>>

\* jobID, err = tx.InsertJob(...), called because FindJob returned NotFound
RaceInsertJob ==
  /\ lastOp.op = "FindJob"
  /\ IsNotFound(lastOp.err)
  /\ LET tags == jobTags(Dashboard48, lastOp.key)
     IN \E failAt \in FailPoints(1 + Len(tags.Sippy)) :
          LET r == InsertJob(db, lastOp.key, Dashboard48, tags, failAt)
          IN /\ faults' = Spend(failAt # 0)
             /\ db' = r.st
             /\ lastOp' = Called("InsertJob", lastOp.key, Dashboard48, failAt, r)
  /\ UNCHANGED <<disk, calls, Idle>>

\* UpsertBuild up to the result of its point lookup
RaceUpsertBuildLookup ==
  /\ calls < MaxRaceCalls
  /\ \E jobID \in JobIDs, number \in BuildNumbers, failAt \in FailPoints(1) :
       LET r == UpsertBuildLookup(db, jobID, number, failAt)
       IN /\ Injected(failAt, r, UpsertBuildLookup(db, jobID, number, 0))
          /\ faults' = Spend(failAt # 0)
          /\ db' = r.st
          /\ lastOp' = Called("UpsertBuildLookup", buildKey(jobID, number), <<10, 1>>, failAt, r)
  /\ calls' = calls + 1
  /\ UNCHANGED <<disk, Idle>>

\* UpsertBuild from its insert on, after the lookup found no row
RaceUpsertBuildInsert ==
  /\ lastOp.op = "UpsertBuildLookup"
  /\ lastOp.err = ErrNoRows
  /\ \E failAt \in {f \in FailPoints(2) : f # 1} :
       LET r == UpsertBuildInsert(db, lastOp.key.JobID, lastOp.key.Number, lastOp.arg[1],
                                  lastOp.arg[2], failAt)
       IN /\ faults' = Spend(failAt # 0)
          /\ db' = r.st
          /\ lastOp' = Called("UpsertBuild", lastOp.key, lastOp.arg, failAt, r)
  /\ UNCHANGED <<disk, calls, Idle>>

\* the other writer creates the job the caller did not find: FindJob and
\* InsertJob on its connection; the caller's connection keeps its
\* last_insert_rowid and its caches
OtherInsertJob ==
  /\ lastOp.op = "FindJob"
  /\ IsNotFound(lastOp.err)
  /\ selectJob(db, lastOp.key) = {}
  /\ LET other == InsertJob(OpenDB(Tables(db)), lastOp.key, Dashboard48,
                            jobTags(Dashboard48, lastOp.key), 0)
     IN db' = [db EXCEPT !.jobs = other.st.jobs, !.tags = other.st.tags]
  /\ UNCHANGED <<disk, faults, lastOp, calls, Idle>>

\* the other writer creates the build the caller's lookup did not find:
\* UpsertBuild on its connection
OtherUpsertBuild ==
  /\ lastOp.op = "UpsertBuildLookup"
  /\ lastOp.err = ErrNoRows
  /\ selectBuild(db, lastOp.key.JobID, lastOp.key.Number) = {}
  /\ LET other == UpsertBuild(OpenDB(Tables(db)), lastOp.key.JobID, lastOp.key.Number, 20, 2, 0)
     IN db' = [db EXCEPT !.builds = other.st.builds]
  /\ UNCHANGED <<disk, faults, lastOp, calls, Idle>>

NextRace ==
  \/ RaceFindJob
  \/ RaceInsertJob
  \/ RaceUpsertBuildLookup
  \/ RaceUpsertBuildInsert
  \/ OtherInsertJob
  \/ OtherUpsertBuild

SpecRace == InitRace /\ [][NextRace]_vars

\* the rows of the tables before the last call that carry the job name
JobRowsBefore == {i \in DOMAIN lastOp.before.jobs : lastOp.before.jobs[i].name = lastOp.key}

\* the call lost the race: its insert found the other writer's row in place
LostInsertJob == lastOp.op = "InsertJob" /\ JobRowsBefore # {}

\* the tag rows the last call added
TagsAdded == {db.tags[i] : i \in (Len(lastOp.before.tags) + 1)..Len(db.tags)}

\* C24: when the caller's InsertJob comes after another writer's insert of
\* the same name, there is one Job row of that name, FindJob then gives the
\* caller that row's id, and the InsertJob neither returned nor cached another
\* id nor attached a tag to another id.
C24_LoserReResolves ==
  LostInsertJob =>
    /\ selectJob(db, lastOp.key) = JobRowsBefore
    /\ Cardinality(JobRowsBefore) = 1
    /\ FindJob(db, lastOp.key, 0).err = Nil
    /\ FindJob(db, lastOp.key, 0).id \in JobRowsBefore
    /\ lastOp.err = Nil => lastOp.id \in JobRowsBefore
    /\ LruHas(db.jobsCache, lastOp.key) => LruValue(db.jobsCache, lastOp.key) \in JobRowsBefore
    /\ \A row \in TagsAdded : row.job_id \in JobRowsBefore

\* the second half of UpsertBuild found the other writer's row in place
LostUpsertBuild == lastOp.op = "UpsertBuild" /\ BuildRowsBefore # {}

\* C25: when another writer inserts the same (jobID, number) between the point
\* lookup and the insert-or-ignore, UpsertBuild returns the id of the row
\* that writer inserted and caches that id for the key.
C25_ConcurrentBuildResolved ==
  (LostUpsertBuild /\ lastOp.failAt = 0) =>
    /\ lastOp.err = Nil
    /\ lastOp.id \in BuildRowsBefore
    /\ LruHas(db.buildsCache, lastOp.key)
    /\ LruValue(db.buildsCache, lastOp.key) \in BuildRowsBefore

\* the rows of build record `build` in tables t: its Job row, its Build row
\* and one TestResult row per test of the record
Persisted(t, build) ==
  \E j \in DOMAIN t.jobs : \E b \in DOMAIN t.builds :
    /\ t.jobs[j].name = build.JobName
    /\ t.builds[b].job_id = j
    /\ t.builds[b].number = build.Number
    /\ \A n \in DOMAIN build.Tests :
         Cardinality({r \in DOMAIN t.results :
                        /\ t.results[r].build_id = b
                        /\ t.results[r].test_id \in DOMAIN t.tests
                        /\ t.tests[t.results[r].test_id].name = n}) = 1

\* C26: in a run without failure Run eventually returns success; at that
\* point every build record the fetch workers emitted that has no running
\* test has its Job row, its Build row and one TestResult row per test
\* committed; and the committed tables change only once buildsCh is closed
\* and drained.
C26_RunSucceeds ==
  /\ <>(result = Nil)
  /\ [](result = Nil =>
          \A build \in emitted : ~AnyRunning(build) => Persisted(disk, build))
  /\ [][disk' # disk => (buildsClosed = 1 /\ buildsCh = <<>> /\ pc[Persister] = "commit")]_vars

\* Run returned success after the fetch workers emitted a record with a
\* running test and records of two jobs without one
C26_Witness ==
  /\ result = Nil
  /\ \E b1, b2, b3 \in emitted :
       /\ AnyRunning(b1)
       /\ ~AnyRunning(b2)
       /\ ~AnyRunning(b3)
       /\ b2.JobName # b3.JobName
  /\ Len(disk.jobs) = 2
  /\ Len(disk.results) > 2

\* C27: the discover worker sends one (dashboard, jobName) item for every
\* job of each summary it was given, dashboard after dashboard: a send takes
\* one job out of the jobs left of the current dashboard, only a listing
\* refills them and only once none is left, and the worker moves to the next
\* dashboard or returns nil only with none left.  Once the worker has
\* returned, after a failed listing too, nothing more is sent.  jobsCh is
\* closed once, after the worker's goroutine has finished, and is closed by
\* the time Run returns, whether the listings succeeded or one failed.
C27_DiscoverEmits ==
  /\ [](/\ jobsClosed <= 1
        /\ jobsClosed = 1 => pc[Discoverer] = "done"
        /\ result # Pending => jobsClosed = 1
        /\ pc[Discoverer] \in {"ret", "done"} =>
             /\ dPending = {}
             /\ ret[Discoverer] = Nil => dIdx = Len(Dashboards))
  /\ [][/\ Len(jobsCh') > Len(jobsCh) =>
             /\ pc[Discoverer] = "send"
             /\ jobsClosed = 0
             /\ \E jobName \in dPending :
                  /\ jobsCh' = Append(jobsCh, [Dashboard |-> Dashboards[dIdx],
                                               Name |-> jobName])
                  /\ dPending' = dPending \ {jobName}
        /\ (dPending' # dPending /\ Len(jobsCh') <= Len(jobsCh)) =>
             /\ pc[Discoverer] = "list"
             /\ dPending = {}
             /\ dPending' \subseteq Listable(Dashboards[dIdx])
        /\ dIdx' # dIdx => (dIdx' = dIdx + 1 /\ dPending' = {})
        /\ pc[Discoverer] \in {"ret", "done"} =>
             /\ pc'[Discoverer] \in {"ret", "done"}
             /\ Len(jobsCh') <= Len(jobsCh)
             /\ ret'[Discoverer] = ret[Discoverer]
        /\ jobsClosed' # jobsClosed => pc[Discoverer] = "done"]_vars

\* the listing of the second dashboard failed after both jobs of the first
\* were sent and fetched; jobsCh is closed and Run has returned the error
C27_Witness ==
  /\ ret[Discoverer] = "list failed"
  /\ dIdx = 2
  /\ jobsClosed = 1
  /\ \E b1, b2 \in emitted : b1.JobName # b2.JobName
  /\ result = "list failed"

(***************************************************************************)
(* The fetch worker's unpacking and flattening of one job's results, over  *)
(* packed results with up to MaxChangelists builds, up to MaxTests entries *)
(* of Tests (two entries may carry the same name) and statuses encoded in  *)
(* up to MaxPairs (count, value) pairs, a count of zero included.  Every   *)
(* entry's statuses cover the changelist axis.                             *)
(***************************************************************************)
MaxChangelists == 2
MaxTests == 2
MaxPairs == 2
MaxCount == 2

FlattenStatuses == {TestStatusNoResult, TestStatusPass, TestStatusFail}

SeqsUpTo(S, n) == UNION {[1..k -> S] : k \in 0..n}

\* the length of the statuses a []testgrid.TestResult stands for
RECURSIVE SumCounts(_)
SumCounts(tr) == IF tr = <<>> THEN 0 ELSE Head(tr).Count + SumCounts(Tail(tr))

\* the encodings of n statuses
PackedStatuses(n) ==
  {tr \in SeqsUpTo([Count : 0..MaxCount, Value : FlattenStatuses], MaxPairs) :
     SumCounts(tr) = n}

\* what testgrid.GetJobResults may decode for a job with n builds
PackedInputs ==
  UNION {{[Changelists |-> [i \in 1..n |-> "b" \o ToString(i)],
           Timestamps |-> [i \in 1..n |-> 10 * i],
           Tests |-> tests] :
            tests \in SeqsUpTo([Name : TestNames, Statuses : PackedStatuses(n)], MaxTests)} :
         n \in 0..MaxChangelists}

\* the items the worker may receive from jobsCh
JobItems ==
  {[Dashboard |-> Dashboards[d], Name |-> n] : d \in DOMAIN Dashboards, n \in {JobA}}

InitFlatten ==
  /\ srcFaults = 0
  /\ faults = 0
  /\ InitRun(EmptyTables)

\* one iteration of the range over jobsCh up to the loop over the
\* changelists: GetJobResults returned packed, the results are unpacked and
\* the records are built
CallFlatten ==
  /\ lastOp = NoOp
  /\ \E job \in JobItems : \E packed \in PackedInputs :
       lastOp' = [op |-> "flatten", job |-> job, packed |-> packed,
                  pending |-> flatten(job, unpackJobResults(packed)),
                  sent |-> <<>>]
  /\ UNCHANGED <<disk, db, calls, faults, Idle>>

\* buildsCh <- build, for the next changelist
EmitBuild ==
  /\ lastOp.op = "flatten"
  /\ lastOp.pending # <<>>
  /\ lastOp' = [lastOp EXCEPT !.pending = Tail(@), !.sent = Append(@, Head(lastOp.pending))]
  /\ UNCHANGED <<disk, db, calls, faults, Idle>>

NextFlatten ==
  \/ CallFlatten
  \/ EmitBuild

SpecFlatten == InitFlatten /\ [][NextFlatten]_vars

\* the status the pairs tr stand for at index i: the value of the pair whose
\* run of copies covers i
StatusAt(tr, i) ==
  LET k == CHOOSE k \in DOMAIN tr :
             /\ SumCounts(SubSeq(tr, 1, k - 1)) < i
             /\ i <= SumCounts(SubSeq(tr, 1, k))
  IN tr[k].Value

\* the entry of Tests that stands for the test named n: the last of that name
EntryOf(packed, n) ==
  CHOOSE e \in DOMAIN packed.Tests :
    /\ packed.Tests[e].Name = n
    /\ \A f \in DOMAIN packed.Tests : packed.Tests[f].Name = n => f <= e

\* C28: for a job with changelists c1..cn the fetch worker emits one build
\* record per changelist index i, in order, with the job's dashboard and
\* name, number ci, timestamp Timestamps[i], and a test map that holds
\* exactly the tests whose status at index i is not no-result, each with
\* that status; the status at index i is the value of the (count, value)
\* pair whose count copies, laid out pair after pair, cover i.
C28_FlattenPerChangelist ==
  lastOp.op = "flatten" =>
    LET packed == lastOp.packed
        builds == lastOp.sent \o lastOp.pending
        names == {packed.Tests[e].Name : e \in DOMAIN packed.Tests}
        status(n, i) == StatusAt(packed.Tests[EntryOf(packed, n)].Statuses, i)
    IN /\ Len(builds) = Len(packed.Changelists)
       /\ \A i \in DOMAIN builds :
            /\ builds[i].JobDashboard = lastOp.job.Dashboard
            /\ builds[i].JobName = lastOp.job.Name
            /\ builds[i].Number = packed.Changelists[i]
            /\ builds[i].Timestamp = packed.Timestamps[i]
            /\ DOMAIN builds[i].Tests = {n \in names : status(n, i) # TestStatusNoResult}
            /\ \A n \in DOMAIN builds[i].Tests : builds[i].Tests[n] = status(n, i)

\* both records of a job with two builds were emitted: Overall, encoded as
\* one pair of count 2, passed twice; t1 had no result in the first build and
\* failed in the second
C28_Witness ==
  /\ lastOp.op = "flatten"
  /\ lastOp.pending = <<>>
  /\ Len(lastOp.sent) = 2
  /\ \E e \in DOMAIN lastOp.packed.Tests :
       lastOp.packed.Tests[e] = [Name |-> "Overall",
                                 Statuses |-> <<[Count |-> 2, Value |-> TestStatusPass]>>]
  /\ lastOp.sent[1].Tests = [n \in {"Overall"} |-> TestStatusPass]
  /\ lastOp.sent[2].Tests = [n \in {"Overall", "t1"} |->
                               IF n = "t1" THEN TestStatusFail ELSE TestStatusPass]

\* the record a stored build was created from: the records of StatsBuilds
\* differ in their timestamps
RecordOf(row) == CHOOSE build \in StatsBuilds : build.Timestamp = row.timestamp

\* C29: the status stored for a build is 2 exactly when the Overall status
\* of the record the build was stored from is fail, and 1 in every other
\* case: Overall pass, flaky or pass-with-skips, or no Overall in the record.
C29_BuildStatusFromOverall ==
  \A b \in DOMAIN disk.builds :
    LET row == disk.builds[b]
        build == RecordOf(row)
        overallFailed == \E n \in DOMAIN build.Tests :
                           n = "Overall" /\ build.Tests[n] = TestStatusFail
    IN /\ \E build2 \in StatsBuilds : build2.Timestamp = row.timestamp
       /\ build.Number = row.number
       /\ disk.jobs[row.job_id].name = build.JobName
       /\ row.status = IF overallFailed THEN 2 ELSE 1

\* a build stored from a record without Overall and a build stored from a
\* record whose Overall is flaky, both with status 1
C29_Witness ==
  \E b1, b2 \in DOMAIN disk.builds :
    /\ "Overall" \notin DOMAIN RecordOf(disk.builds[b1]).Tests
    /\ disk.builds[b1].status = 1
    /\ "Overall" \in DOMAIN RecordOf(disk.builds[b2]).Tests
    /\ RecordOf(disk.builds[b2]).Tests["Overall"] = TestStatusFlaky
    /\ disk.builds[b2].status = 1

\* every Build row of tables t references a Job row of t, and every
\* TestResult row a Build row and a Test row of t
References(t) ==
  /\ \A b \in DOMAIN t.builds : t.builds[b].job_id \in DOMAIN t.jobs
  /\ \A r \in DOMAIN t.results :
       /\ t.results[r].build_id \in DOMAIN t.builds
       /\ t.results[r].test_id \in DOMAIN t.tests

\* C30: for each record it takes up the persist worker resolves or creates
\* the Job, then upserts the Build under the Job's id, then each Test and its
\* TestResult under the Build's and the Test's id; so in every state of the
\* transaction, and in the committed tables, every Build row references an
\* existing Job row and every TestResult row an existing Build row and an
\* existing Test row.
C30_ReferencesExist ==
  /\ [](References(db) /\ References(disk))
  /\ [][/\ Len(db'.jobs) > Len(db.jobs) =>
             /\ pc[Persister] = "insertjob"
             /\ pc'[Persister] \in {"build", "commit"}
             /\ db'.jobs[Len(db'.jobs)].name = pCur.JobName
        /\ Len(db'.builds) > Len(db.builds) =>
             /\ pc[Persister] = "build"
             /\ db'.builds[Len(db'.builds)].job_id = pJobID
             /\ db.jobs[pJobID].name = pCur.JobName
             /\ db'.builds[Len(db'.builds)].number = pCur.Number
        /\ Len(db'.tests) > Len(db.tests) =>
             /\ pc[Persister] = "test"
             /\ db.builds[pBuildID].number = pCur.Number
             /\ db.builds[pBuildID].job_id = pJobID
        /\ Len(db'.results) > Len(db.results) =>
             /\ pc[Persister] = "result"
             /\ db'.results[Len(db'.results)].build_id = pBuildID
             /\ db'.results[Len(db'.results)].test_id = pTestID
             /\ db.builds[pBuildID].number = pCur.Number
             /\ db.tests[pTestID].name = pTestName]_vars

\* the transaction holds the rows of a build of a second job, stored under a
\* job the worker created, with a result of a test the first job's build
\* created, and the worker is about to store a further result
C30_Witness ==
  /\ pc[Persister] = "result"
  /\ Len(db.jobs) = 2
  /\ Len(db.builds) = 2
  /\ pJobID = 2
  /\ pBuildID = 2
  /\ \E r \in DOMAIN db.results :
       /\ db.results[r].build_id = 2
       /\ db.results[r].test_id = 1
  /\ Len(disk.builds) = 0

(***************************************************************************)
(* Properties of the caches.                                               *)
(***************************************************************************)
CacheKeys(c) == {c[i].key : i \in DOMAIN c}

\* every entry of the three caches of st maps its key to the id of the row
\* of st with that key
Coherent(st) ==
  /\ \A i \in DOMAIN st.jobsCache :
       /\ st.jobsCache[i].id \in DOMAIN st.jobs
       /\ st.jobs[st.jobsCache[i].id].name = st.jobsCache[i].key
  /\ \A i \in DOMAIN st.buildsCache :
       /\ st.buildsCache[i].id \in DOMAIN st.builds
       /\ st.builds[st.buildsCache[i].id].job_id = st.buildsCache[i].key.JobID
       /\ st.builds[st.buildsCache[i].id].number = st.buildsCache[i].key.Number
  /\ \A i \in DOMAIN st.testsCache :
       /\ st.testsCache[i].id \in DOMAIN st.tests
       /\ st.tests[st.testsCache[i].id].name = st.testsCache[i].key

\* how a call that left `op` behind may change cache c into d, a cache of
\* `size` entries fed by the calls `ops` and by the rows of `table`: a key
\* enters only as the key of the call, after a lookup that succeeded or an
\* insert that stored its row; a key leaves only as the oldest entry of a
\* full cache that a new key enters; and a call that returned no error has
\* its key in the cache
CacheStep(c, d, size, ops, op, rowAdded) ==
  /\ \A k \in CacheKeys(d) \ CacheKeys(c) :
       /\ op.op \in ops
       /\ op.key = k
       /\ op.err = Nil \/ rowAdded
  /\ \A k \in CacheKeys(c) \ CacheKeys(d) :
       /\ Len(c) = size
       /\ k = c[Len(c)].key
       /\ CacheKeys(d) \ CacheKeys(c) # {}
  /\ (op.op \in ops /\ op.err = Nil) => op.key \in CacheKeys(d)
  /\ Len(d) <= size

\* C31: for the single writer, after any sequence of store calls every entry
\* of the jobs, builds and tests caches maps its key to the id of the stored
\* row with that key; an entry is added by a lookup that succeeded and by an
\* insert that succeeded, and leaves only by eviction from a full cache.
C31_CacheCoherence ==
  /\ [](Coherent(db))
  /\ [][lastOp'.op # "Reopen" =>
          /\ CacheStep(db.jobsCache, db'.jobsCache, JobsCacheSize, {"FindJob", "InsertJob"},
                       lastOp', Len(db'.jobs) > Len(db.jobs))
          /\ CacheStep(db.buildsCache, db'.buildsCache, BuildsCacheSize, {"UpsertBuild"},
                       lastOp', FALSE)
          /\ CacheStep(db.testsCache, db'.testsCache, TestsCacheSize, {"UpsertTest"},
                       lastOp', FALSE)]_vars

\* the jobs cache holds the job the last FindJob looked up in the table, in
\* place of the job an earlier InsertJob had put there
C31_Witness ==
  /\ lastOp.op = "FindJob"
  /\ lastOp.err = Nil
  /\ Len(db.jobs) = 2
  /\ \E i \in DOMAIN db.jobs :
       /\ db.jobs[i].name # lastOp.key
       /\ db.jobsCache = <<[key |-> lastOp.key, id |-> 3 - i]>>

\* the steps of a store operation of the persist worker, tx.Commit included
StorePcs == {"findjob", "insertjob", "build", "test", "result", "commit"}

\* C32: during a run the store and its caches are accessed by the one
\* persist goroutine only: a step that touches the connection (its tables,
\* last_insert_rowid or caches) or the committed tables is a store operation
\* of the persist worker and is no step of the discover worker or of a fetch
\* worker, so no two accesses to a cache and no two store writes are
\* concurrent.
C32_SingleStoreGoroutine ==
  /\ [](\A w \in Workers \ {Persister} : pc[w] \notin StorePcs)
  /\ [][(db' # db \/ disk' # disk) =>
          /\ pc[Persister] \in StorePcs
          /\ \A w \in Workers \ {Persister} : pc'[w] = pc[w] /\ ret'[w] = ret[w]
          /\ jobsCh' = jobsCh
          /\ buildsCh' = buildsCh
          /\ emitted' = emitted
          /\ fPending' = fPending
          /\ dPending' = dPending
          /\ dIdx' = dIdx]_vars

\* the persist worker is inside UpsertTest with a cached job while a fetch
\* worker holds a record to send and the discover worker has a job to send
C32_Witness ==
  /\ pc[Persister] = "test"
  /\ db.jobsCache # <<>>
  /\ \E w \in Fetchers : pc[w] = "send"
  /\ pc[Discoverer] = "send"

(***************************************************************************)
(* Properties of the aggregation engine, continued.                        *)
(***************************************************************************)
\* the request was pinned to a test and got as far as the fold, so the test
\* exists
Pinned == Folded /\ lastOp.testName # ""

\* the stored builds that have a result of known status for the pinned test,
\* each once per group it belongs to: once, or once per tag of its job when
\* the request groups by tag
PinnedBuilds ==
  UNION {[b : {b}, tag : UnitTags(b)] :
           b \in {x \in DOMAIN disk.builds :
                    /\ lastOp.filter # <<>> => disk.builds[x].job_id \in Range(lastOp.found.ids)
                    /\ \E r \in DOMAIN disk.results :
                         /\ disk.results[r].build_id = x
                         /\ disk.tests[disk.results[r].test_id].name = lastOp.testName
                         /\ disk.results[r].status \in KnownTestStatuses}}

PinnedColumns(u) ==
  [k \in DOMAIN ReqColumns |->
     IF ReqColumns[k] = "sippytags" THEN u.tag
     ELSE IF ReqColumns[k] = "name" THEN disk.jobs[disk.builds[u.b].job_id].name
     ELSE IF ReqColumns[k] = "dashboard" THEN disk.jobs[disk.builds[u.b].job_id].dashboard
     ELSE lastOp.testName]

\* the tables without the results of every test but the one named
OnlyTest(t, name) ==
  [t EXCEPT !.results = SelectSeq(@, LAMBDA row : t.tests[row.test_id].name = name)]

\* C33: with a testname pin naming a stored test, whether or not the columns
\* include test, a group's counts of a window add up to the number of builds
\* of the group and window that have a result for the pinned test, every
\* group with such a build in the requested time range is returned, and the
\* results of other tests add to no count: the response is the one the same
\* request gets over the tables without them.
C33_PinnedTestOnly ==
  Pinned =>
    /\ \A k \in DOMAIN lastOp.r.stats.Data : \A i \in DOMAIN lastOp.r.stats.Data[k].Values :
         LET row == lastOp.r.stats.Data[k]
         IN row.Values[i].Pass + row.Values[i].Flake + row.Values[i].Fail =
              Cardinality({u \in PinnedBuilds :
                             /\ PinnedColumns(u) = row.Columns
                             /\ StatementWindow(DayCounts(lastOp.periods), i,
                                                disk.builds[u.b].timestamp, lastOp.now)})
    /\ \A u \in PinnedBuilds :
         (\E i \in DOMAIN DayCounts(lastOp.periods) :
            StatementWindow(DayCounts(lastOp.periods), i, disk.builds[u.b].timestamp,
                            lastOp.now))
         => \E k \in DOMAIN lastOp.r.stats.Data : lastOp.r.stats.Data[k].Columns = PinnedColumns(u)
    /\ lastOp.r.stats =
         BuildStats(OpenDB(OnlyTest(disk, lastOp.testName)), lastOp.columns, lastOp.filter,
                    lastOp.periods, lastOp.testName, lastOp.now).stats

\* a request pinned to Overall and grouped by tag, over a store in which a
\* build also has a result for t1: the build is counted once under each tag
\* of its job
C33_Witness ==
  /\ Pinned
  /\ lastOp.testName = "Overall"
  /\ Str(lastOp.columns) = "sippytags"
  /\ \E r \in DOMAIN disk.results : disk.tests[disk.results[r].test_id].name = "t1"
  /\ Cardinality({k \in DOMAIN lastOp.r.stats.Data :
                    \E i \in DOMAIN lastOp.r.stats.Data[k].Values :
                      lastOp.r.stats.Data[k].Values[i] # StatsValues(0, 0, 0)}) > 1

(***************************************************************************)
(* The fold of BuildStats over stores whose job and test names contain the *)
(* key's separator.  Job names are the keys of the dashboard summary and   *)
(* test names come with the job results: the indexer stores both as they   *)
(* are.  Each step persists one build record or answers one request for    *)
(* columns=name,test and periods=7; the grouped statement has no ORDER BY, *)
(* so the scan yields its rows in any order.                               *)
(***************************************************************************)
KeyJobs == {"a", "a/b"}
KeyTests == {"c", "b/c"}

\* build records the fetch workers may send for these jobs
KeyBuilds ==
  {[JobDashboard |-> Dashboard48, JobName |-> j, Number |-> n, Timestamp |-> DaysAgo(1),
    Tests |-> tests] :
     j \in KeyJobs, n \in {"b1"},
     tests \in UNION {[S -> {TestStatusPass, TestStatusFail}] : S \in SUBSET KeyTests \ {{}}}}

KeyColumns == <<"n", "a", "m", "e", ",", "t", "e", "s", "t">>
KeyPeriods == <<"7">>

\* the statement BuildStats runs for the request, as lines 1350-1447 build it
KeyQuery(now) ==
  LET query0 == Join(EmptyQuery, "jobs j ON j.id = b.job_id", <<>>)
      q == ColumnsLoop([query |-> query0, statusField |-> "b.status", nc |-> 0, err |-> Nil],
                       Split(KeyColumns, ","), 1)
      q2 == GroupBy(Select(q.query, q.statusField, <<>>), q.statusField)
      q3 == PeriodsLoop([query |-> q2, np |-> 0, days |-> 0, err |-> Nil],
                        Split(KeyPeriods, ","), 1, now)
  IN SQL(Where(q3.query, "b.timestamp >= ?", {}, <<(now - 86400 * q3.days) * 1000>>))

InitKeys ==
  /\ srcFaults = 0
  /\ faults = 0
  /\ InitRun(EmptyTables)

IngestKeyed ==
  /\ calls < MaxBuilds
  /\ lastOp.op # "BuildStats"
  /\ \E build \in KeyBuilds : \E order \in Orders(DOMAIN build.Tests) :
       /\ db' = OpenDB(Tables(PersistBuild(db, build, order)))
       /\ disk' = Tables(PersistBuild(db, build, order))
  /\ lastOp' = NoOp
  /\ calls' = calls + 1
  /\ UNCHANGED <<faults, Idle>>

\* one request: rows.Next() yields the groups of the statement in the order
\* scan, and the loop of lines 1449-1499 folds them
CallKeyed ==
  /\ lastOp.op # "BuildStats"
  /\ \E scan \in Orders(Range(Query(db, KeyQuery(QueryNow)).rows)) :
       lastOp' = [op |-> "BuildStats", columns |-> KeyColumns, filter |-> <<>>,
                  periods |-> KeyPeriods, testName |-> "", now |-> QueryNow,
                  found |-> NotCalled, scan |-> scan,
                  r |-> StatsRet(db, [Data |-> Fold(<<>>, scan, 1, 2, 1, "tr.status")], Nil,
                                 <<"grouped">>)]
  /\ UNCHANGED <<disk, db, calls, faults, Idle>>

NextKeys ==
  \/ IngestKeyed
  \/ CallKeyed
  \/ Respond

SpecKeys == InitKeys /\ [][NextKeys]_vars

\* the scan rows whose group tuple was not seen earlier in the scan
FirstSeen(scan) ==
  {i \in DOMAIN scan : \A j \in 1..(i - 1) : Prefix(scan[j], 2) # Prefix(scan[i], 2)}

\* the k-th smallest element of a set of indexes
RECURSIVE Kth(_, _)
Kth(ids, k) == IF k = 1 THEN FirstId(ids) ELSE Kth(ids \ {FirstId(ids)}, k - 1)

\* C34: the returned rows are the distinct group tuples of the scan, each in
\* exactly one row, in the order in which the scan first yielded them.
C34_FirstSeenOnce ==
  Answered =>
    LET data == lastOp.r.stats.Data
        firsts == FirstSeen(lastOp.scan)
    IN /\ Len(data) = Cardinality(firsts)
       /\ \A k \in DOMAIN data : data[k].Columns = Prefix(lastOp.scan[Kth(firsts, k)], 2)

\* C35: a returned row's counts are the sums of the scan rows of its own
\* group tuple: rows of the scan whose tuples differ are never added into the
\* same returned row.
C35_KeySeparatesTuples ==
  Answered =>
    \A k \in DOMAIN lastOp.r.stats.Data :
      LET row == lastOp.r.stats.Data[k]
          own == [i \in DOMAIN lastOp.scan |->
                    IF Prefix(lastOp.scan[i], 2) = row.Columns THEN lastOp.scan[i][4] ELSE 0]
      IN row.Values[1].Pass + row.Values[1].Flake + row.Values[1].Fail =
           SumTo(own, Len(own))

(***************************************************************************)
(* Properties of the queues.                                               *)
(***************************************************************************)
\* C36: no queue is used after it was closed.  jobsCh is closed once, after
\* the discover worker returned, and buildsCh once, after every fetch worker
\* returned; nothing is sent on a closed queue and no queue is closed twice.
C36_NoUseAfterClose ==
  /\ [](jobsClosed <= 1 /\ buildsClosed <= 1)
  /\ [](jobsClosed > 0 => pc[Discoverer] = "done")
  /\ [](buildsClosed > 0 => \A w \in Fetchers : pc[w] = "done")
  /\ [][/\ jobsClosed' # jobsClosed =>
             jobsClosed = 0 /\ jobsClosed' = 1 /\ pc[Discoverer] = "done"
        /\ buildsClosed' # buildsClosed =>
             buildsClosed = 0 /\ buildsClosed' = 1 /\ \A w \in Fetchers : pc[w] = "done"
        /\ Len(jobsCh') > Len(jobsCh) => jobsClosed' = 0
        /\ Len(buildsCh') > Len(buildsCh) => buildsClosed' = 0]_vars

\* both queues were used and are closed, and a fetch worker had returned with
\* an error while another was still at work
C36_Witness ==
  /\ jobsClosed = 1
  /\ buildsClosed = 1
  /\ emitted # {}
  /\ \E w \in Fetchers : ret[w] # Nil

(***************************************************************************)
(* Properties of the stored test results.                                  *)
(***************************************************************************)
\* C37: no TestResult row, in the transaction or committed, has the status
\* no-result or running: the fetch worker leaves no-result entries out of the
\* build record, and the persist worker skips a record with a running entry
\* as a whole.
C37_NoMidRunStatus ==
  /\ \A r \in DOMAIN db.results :
       db.results[r].status \notin {TestStatusNoResult, TestStatusRunning}
  /\ \A r \in DOMAIN disk.results :
       disk.results[r].status \notin {TestStatusNoResult, TestStatusRunning}
  /\ \A b \in emitted : TestStatusNoResult \notin Range(b.Tests)

\* the run succeeded and committed results although the fetch workers had sent
\* a record with a running entry
C37_Witness ==
  /\ \E b \in emitted : hasRunning(b)
  /\ pc[Persister] = "done"
  /\ ret[Persister] = Nil
  /\ buildsCh = <<>>
  /\ disk.results # <<>>

(***************************************************************************)
(* The caches as an optimisation: the store compared with itself over      *)
(* smaller caches and over none.                                           *)
(***************************************************************************)
\* st with only the n most recently used entries of each cache
Evicted(st, nj, nb, nt) ==
  [st EXCEPT !.jobsCache = Prefix(@, nj), !.buildsCache = Prefix(@, nb),
             !.testsCache = Prefix(@, nt)]

\* what a caller and a later reader can see of a call's outcome: the id, the
\* error, the tables and last_insert_rowid
Visible(r) == [id |-> r.id, err |-> r.err, tables |-> Tables(r.st), last |-> r.st.last]

\* the call that left op behind, made on st
Replay(st, op) ==
  IF op.op = "FindJob" THEN FindJob(st, op.key, op.failAt)
  ELSE IF op.op = "InsertJob"
  THEN InsertJob(st, op.key, op.arg, jobTags(op.arg, op.key), op.failAt)
  ELSE IF op.op = "UpsertBuild"
  THEN UpsertBuild(st, op.key.JobID, op.key.Number, op.arg[1], op.arg[2], op.failAt)
  ELSE UpsertTest(st, op.key, op.failAt)

\* C38: the caches are transparent.  Whatever the caches hold when the
\* persist writer makes a FindJob, InsertJob, UpsertBuild or UpsertTest call,
\* the call returns the id and error, and leaves the tables and
\* last_insert_rowid, that it returns and leaves when any number of the
\* least recently used entries had been evicted before it, down to empty
\* caches; so by induction over the calls a sequence of calls has the same
\* outcome over caches of every capacity as over none.
C38_CachesTransparent ==
  [][lastOp'.op \in {"FindJob", "InsertJob", "UpsertBuild", "UpsertTest"} =>
       /\ Visible(Replay(db, lastOp')) = Visible([st |-> db', id |-> lastOp'.id, err |-> lastOp'.err])
       /\ \A nj \in 0..Len(db.jobsCache), nb \in 0..Len(db.buildsCache),
             nt \in 0..Len(db.testsCache) :
            Visible(Replay(Evicted(db, nj, nb, nt), lastOp')) =
              Visible([st |-> db', id |-> lastOp'.id, err |-> lastOp'.err])]_vars

\* FindJob answered a name while the store held two jobs and the jobs cache
\* was full: an entry had been evicted before the call
C38_Witness ==
  /\ lastOp.op = "FindJob"
  /\ lastOp.err = Nil
  /\ Len(db.jobs) = 2
  /\ Len(db.jobsCache) = JobsCacheSize
  /\ db.jobsCache[1].key = lastOp.key

(***************************************************************************)
(* ciinfo: the tags the tagger derives from the downloaded configuration,  *)
(* and InsertJob called with the tags jobTags computes from them.          *)
(***************************************************************************)
MaxSteps == 2

\* getEnv: the default of the first variable of that name, else ""
getEnv(envs, key) ==
  LET hits == {i \in DOMAIN envs : envs[i].Name = key}
  IN IF hits = {} THEN "" ELSE envs[FirstId(hits)].Default

\* the tag of one step of literal_steps.test, <<>> for a step that is not a
\* test step Tags knows
StepTag(step) ==
  LET type == getEnv(step.Env, "TEST_TYPE")
      suite == getEnv(step.Env, "TEST_SUITE")
  IN IF step.As \notin {"openshift-e2e-test", "openshift-e2e-libvirt-test",
                        "baremetalds-e2e-test"}
     THEN <<>>
     ELSE IF type \in {"suite", "conformance-serial", "conformance-parallel"}
     THEN (IF suite = "openshift/conformance/parallel"
           THEN <<"x-test-openshift-e2e-suite-parallel">>
           ELSE IF suite = "openshift/conformance/serial"
           THEN <<"x-test-openshift-e2e-suite-serial">>
           ELSE IF suite = "openshift/csi" THEN <<"x-test-openshift-e2e-suite-csi">>
           ELSE IF suite = "experimental/reliability/minimal"
           THEN <<"x-test-openshift-e2e-suite-canary">>
           ELSE <<"x-test-openshift-e2e-suite-unknown">>)
     ELSE IF type = "upgrade-conformance"
     THEN <<"x-test-openshift-e2e-upgrade-conformance">>
     ELSE IF type = "upgrade" THEN <<"x-test-openshift-e2e-upgrade-only">>
     ELSE IF type = "image-ecosystem" THEN <<"x-test-openshift-e2e-image-ecosystem">>
     ELSE IF type = "jenkins-e2e-rhel-only"
     THEN <<"x-test-openshift-e2e-jenkins-e2e-rhel-only">>
     ELSE <<"x-test-openshift-e2e-unknown">>

RECURSIVE StepTags(_)
StepTags(steps) ==
  IF steps = <<>> THEN <<>> ELSE StepTag(Head(steps)) \o StepTags(Tail(steps))

\* ciinfo.Tags
Tags(test) ==
  <<"x-platform-" \o test.LiteralSteps.ClusterProfile>> \o
  StepTags(test.LiteralSteps.Test) \o
  If(StepTags(test.LiteralSteps.Test) = <<>>, "x-test-unknown")

\* Tagger.AddConfig: a later test of the same name replaces an earlier one
RECURSIVE AddTests(_, _, _)
AddTests(jobs, jobPrefix, tests) ==
  IF tests = <<>> THEN jobs
  ELSE AddTests((jobPrefix \o Head(tests).As :> Tags(Head(tests))) @@ jobs, jobPrefix,
                Tail(tests))

AddConfig(jobs, cfg) ==
  LET m == cfg.ZZGeneratedMetadata
      jobPrefix == "periodic-ci-" \o m.Org \o "-" \o m.Repo \o "-" \o m.Branch \o "-" \o
                   (IF m.Variant # "" THEN m.Variant \o "-" ELSE "")
  IN AddTests(jobs, jobPrefix, cfg.Tests)

\* Tagger.GetTags of a tagger with the job map jobs
GetTagsWith(jobs, jobName) ==
  IF jobName \in DOMAIN jobs /\ Len(jobs[jobName]) # 0 THEN jobs[jobName]
  ELSE <<"x-no-steps">>

\* jobTags(t, dashboard, jobName) for a tagger with the job map jobs
jobTagsWith(jobs, dashboard, jobName) ==
  [jobTags(dashboard, jobName) EXCEPT
     !.Sippy = IdentifyVariants(jobName) \o GetTagsWith(jobs, jobName) \o
               If(DashboardContains(dashboard, "4.8"), "4.8") \o
               If(DashboardContains(dashboard, "4.9"), "4.9") \o
               If(jobName \in neverStable, "never-stable")]

\* steps a test of the configuration may list
StepInputs ==
  { [As |-> "ipi-install-install", Env |-> <<>>],
    [As |-> "openshift-e2e-test", Env |-> <<>>],
    [As |-> "openshift-e2e-test",
     Env |-> <<[Name |-> "TEST_TYPE", Default |-> "upgrade"]>>],
    [As |-> "openshift-e2e-test",
     Env |-> <<[Name |-> "TEST_TYPE", Default |-> "suite"],
               [Name |-> "TEST_SUITE", Default |-> "openshift/conformance/parallel"]>>],
    [As |-> "baremetalds-e2e-test",
     Env |-> <<[Name |-> "TEST_SUITE", Default |-> "openshift/conformance/parallel"]>>] }

\* configurations the configresolver may return for the variant nightly-4.9:
\* one test, e2e-aws-proxy, with up to MaxSteps test steps
ConfigInputs ==
  {[ZZGeneratedMetadata |-> [Org |-> "openshift", Repo |-> "release", Branch |-> "master",
                             Variant |-> "nightly-4.9"],
    Tests |-> <<[As |-> "e2e-aws-proxy",
                 LiteralSteps |-> [ClusterProfile |-> "aws", Test |-> steps]]>>] :
     steps \in SeqsUpTo(StepInputs, MaxSteps)}

InitTags ==
  /\ srcFaults = 0
  /\ faults = 0
  /\ InitRun(EmptyTables)

\* Run downloads a configuration and adds it to the tagger
LoadConfig ==
  /\ lastOp = NoOp
  /\ \E cfg \in ConfigInputs :
       lastOp' = [op |-> "AddConfig", jobs |-> AddConfig(<<>>, cfg)]
  /\ UNCHANGED <<disk, db, calls, faults, Idle>>

\* the persist worker meets the first record of a job: FindJob answers
\* NotFound and InsertJob is called with the tags of jobTags
InsertTagged ==
  /\ lastOp.op \in {"AddConfig", "InsertJob"}
  /\ calls < MaxCalls
  /\ \E name \in JobNames, i \in DOMAIN Dashboards :
       /\ IsNotFound(FindJob(db, name, 0).err)
       /\ LET tags == jobTagsWith(lastOp.jobs, Dashboards[i], name)
              r == InsertJob(db, name, Dashboards[i], tags, 0)
          IN /\ db' = r.st
             /\ lastOp' = [op |-> "InsertJob", jobs |-> lastOp.jobs, key |-> name,
                           arg |-> Dashboards[i], tags |-> tags, id |-> r.id, err |-> r.err]
  /\ calls' = calls + 1
  /\ UNCHANGED <<disk, faults, Idle>>

NextTags ==
  \/ LoadConfig
  \/ InsertTagged

SpecTags == InitTags /\ [][NextTags]_vars

\* C39: the tag list jobTags computes holds no tag twice, and InsertJob
\* called with it for a job that is not stored does not fail.
C39_TagsDistinct ==
  lastOp.op = "InsertJob" =>
    /\ \A i, j \in DOMAIN lastOp.tags.Sippy :
         lastOp.tags.Sippy[i] = lastOp.tags.Sippy[j] => i = j
    /\ lastOp.err = Nil

(***************************************************************************)
(* Two executions of the fetch and persist stages over the same contents   *)
(* of jobsCh and the same results, each scheduled on its own: the fetch    *)
(* workers take the jobs in channel order, but which worker's record       *)
(* reaches buildsCh first is the scheduler's choice.  No call fails.       *)
(***************************************************************************)
\* the listings of one dashboard as the discover worker may send them
SentFor(dashboard) ==
  {[i \in DOMAIN o |-> [Dashboard |-> dashboard, Name |-> o[i]]] :
     o \in UNION {Orders(S) : S \in SUBSET Listable(dashboard)}}

\* what the discover worker sends over jobsCh in one run
SentJobs == {a \o b : a \in SentFor(Dashboards[1]), b \in SentFor(Dashboards[2])}

\* testgrid.GetJobResults(job.Dashboard, job.Name): one build per listing
ResultsOf(job) ==
  [Changelists |-> <<"b1">>, Timestamps |-> <<10>>,
   Tests |-> <<[Name |-> "Overall", Statuses |-> <<[Count |-> 1, Value |-> TestStatusPass]>>]>>]

NewRun(sent) ==
  [jobs |-> sent, pending |-> [w \in Fetchers |-> <<>>], builds |-> <<>>,
   st |-> OpenDB(EmptyTables)]

\* job := <-jobsCh, GetJobResults, unpackJobResults and the records
RunRecv(run, w) ==
  [run EXCEPT !.jobs = Tail(@),
              !.pending[w] = flatten(Head(run.jobs), unpackJobResults(ResultsOf(Head(run.jobs))))]

\* buildsCh <- build
RunSend(run, w) ==
  [run EXCEPT !.pending[w] = Tail(@), !.builds = Append(@, Head(run.pending[w]))]

\* one iteration of the persist loop
RunPersist(run, order) ==
  [run EXCEPT !.builds = Tail(@), !.st = PersistBuild(run.st, Head(run.builds), order)]

Sides == {"left", "right"}

InitSched ==
  /\ srcFaults = 0
  /\ faults = 0
  /\ InitRun(EmptyTables)

\* both executions start over the same jobs
SchedStart ==
  /\ lastOp = NoOp
  /\ \E sent \in SentJobs :
       lastOp' = [op |-> "runs", sent |-> sent, left |-> NewRun(sent), right |-> NewRun(sent)]
  /\ UNCHANGED <<disk, db, calls, faults, Idle>>

SchedRecv(side, w) ==
  /\ lastOp.op = "runs"
  /\ lastOp[side].jobs # <<>>
  /\ lastOp[side].pending[w] = <<>>
  /\ lastOp' = [lastOp EXCEPT ![side] = RunRecv(@, w)]
  /\ UNCHANGED <<disk, db, calls, faults, Idle>>

SchedSend(side, w) ==
  /\ lastOp.op = "runs"
  /\ lastOp[side].pending[w] # <<>>
  /\ Len(lastOp[side].builds) < BuildsChCap
  /\ lastOp' = [lastOp EXCEPT ![side] = RunSend(@, w)]
  /\ UNCHANGED <<disk, db, calls, faults, Idle>>

SchedPersist(side) ==
  /\ lastOp.op = "runs"
  /\ lastOp[side].builds # <<>>
  /\ \E order \in Orders(DOMAIN Head(lastOp[side].builds).Tests) :
       lastOp' = [lastOp EXCEPT ![side] = RunPersist(@, order)]
  /\ UNCHANGED <<disk, db, calls, faults, Idle>>

NextSched ==
  \/ SchedStart
  \/ \E side \in Sides, w \in Fetchers : SchedRecv(side, w)
  \/ \E side \in Sides, w \in Fetchers : SchedSend(side, w)
  \/ \E side \in Sides : SchedPersist(side)

SpecSched == InitSched /\ [][NextSched]_vars

\* the run has persisted every record of every job it was given
RunOver(run) ==
  /\ run.jobs = <<>>
  /\ run.builds = <<>>
  /\ \A w \in Fetchers : run.pending[w] = <<>>

\* the stored attributes of the jobs: name, dashboard and tag set
JobAttributes(st) ==
  {[name |-> st.jobs[i].name, dashboard |-> st.jobs[i].dashboard,
    tags |-> {st.tags[k].tag : k \in {x \in DOMAIN st.tags : st.tags[x].job_id = i}}] :
     i \in DOMAIN st.jobs}

\* C40: two runs over the same jobs and results that differ only in the
\* scheduling of the fetch workers store the same dashboard and the same tag
\* set for every job.
C40_ScheduleIndependent ==
  (lastOp.op = "runs" /\ RunOver(lastOp.left) /\ RunOver(lastOp.right))
    => JobAttributes(lastOp.left.st) = JobAttributes(lastOp.right.st)

====
